---- MODULE Spec2Model ----
(***************************************************************************)
(* State-machine model of the bencoding decoder in src/src/decode.rs and   *)
(* src/src/decode/*.rs: the single-pass tokenizer BdecodeNode::parse, the  *)
(* child-index builder gen_item_indexes and the typed accessors of the     *)
(* navigation layer.                                                       *)
(*                                                                         *)
(* Bytes are one-character strings.  i64 quantities are kept as decimal    *)
(* numerals (sequences of digits, most significant first, no leading zero) *)
(* so that the comparisons against i64::MAX in parse_uint are exact.       *)
(***************************************************************************)
EXTENDS Integers, Sequences, FiniteSets, TLC

(***************************************************************************)
(* Bytes                                                                   *)
(***************************************************************************)

\* u8::is_ascii_digit
is_ascii_digit(t) == t \in {"0", "1", "2", "3", "4", "5", "6", "7", "8", "9"}

\* (t - b'0') for an ASCII digit t
DigitVal(t) ==
    CASE t = "0" -> 0 [] t = "1" -> 1 [] t = "2" -> 2 [] t = "3" -> 3
      [] t = "4" -> 4 [] t = "5" -> 5 [] t = "6" -> 6 [] t = "7" -> 7
      [] t = "8" -> 8 [] t = "9" -> 9

\* the character of a decimal digit, as format!("{}") prints it
DigitChar(d) == <<"0", "1", "2", "3", "4", "5", "6", "7", "8", "9">>[d + 1]

(***************************************************************************)
(* i64 arithmetic on decimal numerals                                      *)
(***************************************************************************)

\* i64::MAX = 9223372036854775807
I64_MAX == <<9, 2, 2, 3, 3, 7, 2, 0, 3, 6, 8, 5, 4, 7, 7, 5, 8, 0, 7>>

NumZero == <<0>>

RECURSIVE LexLess(_, _)
LexLess(a, b) ==
    IF a = <<>> THEN FALSE
    ELSE IF Head(a) # Head(b) THEN Head(a) < Head(b)
    ELSE LexLess(Tail(a), Tail(b))

\* a < b on numerals
NumLess(a, b) == Len(a) < Len(b) \/ (Len(a) = Len(b) /\ LexLess(a, b))

\* a > b on numerals
NumGreater(a, b) == NumLess(b, a)

\* a / 10
NumDiv10(a) == IF Len(a) = 1 THEN NumZero ELSE SubSeq(a, 1, Len(a) - 1)

\* a * 10
NumMul10(a) == IF a = NumZero THEN NumZero ELSE Append(a, 0)

\* a + d for a digit d
RECURSIVE NumAddDigit(_, _)
NumAddDigit(a, d) ==
    IF a = <<>> THEN (IF d = 0 THEN <<>> ELSE <<d>>)
    ELSE LET last == a[Len(a)]
             s    == last + d
         IN  Append(NumAddDigit(SubSeq(a, 1, Len(a) - 1), s \div 10), s % 10)

\* strips leading zeros, keeping one digit
RECURSIVE NumNorm(_)
NumNorm(a) == IF Len(a) > 1 /\ Head(a) = 0 THEN NumNorm(Tail(a)) ELSE a

\* a - d for a digit d <= a
RECURSIVE NumSubRaw(_, _)
NumSubRaw(a, d) ==
    IF d = 0 THEN a
    ELSE LET last == a[Len(a)]
         IN  IF last >= d
             THEN Append(SubSeq(a, 1, Len(a) - 1), last - d)
             ELSE Append(NumSubRaw(SubSeq(a, 1, Len(a) - 1), 1), last + 10 - d)

NumSubDigit(a, d) == NumNorm(NumSubRaw(a, d))

\* the numeral of a natural number
RECURSIVE NatToNum(_)
NatToNum(n) == IF n < 10 THEN <<n>> ELSE Append(NatToNum(n \div 10), n % 10)

\* the natural number of a numeral (of at most 9 digits)
RECURSIVE NumToNat(_)
NumToNat(a) ==
    IF a = <<>> THEN 0 ELSE NumToNat(SubSeq(a, 1, Len(a) - 1)) * 10 + a[Len(a)]

\* the decimal text of a numeral, as format!("{val}") prints it
NumText(a) == [k \in 1..Len(a) |-> DigitChar(a[k])]

(***************************************************************************)
(* Buffers: Vec<u8>.  A buffer is its explicit leading bytes followed by   *)
(* `pad` filler bytes, so that buffers near the 2^29 cap can be stated.    *)
(***************************************************************************)

Filler == "x"

\* buffer.len()
BufLen(b) == Len(b.bytes) + b.pad

\* buffer[i] for 0 <= i < buffer.len()
BufAt(b, i) == IF i < Len(b.bytes) THEN b.bytes[i + 1] ELSE Filler

\* &buffer[from..to]
BufSlice(b, from, to) == [k \in 1..(to - from) |-> BufAt(b, from + k - 1)]

(***************************************************************************)
(* decode/commons.rs: limits                                               *)
(***************************************************************************)

BUFFER_MAX_OFFSET == 2^29 - 1
MAX_NEXT_ITEM == 2^29 - 1
MAX_HEADER_SIZE == 7
DEFAULT_DEPTH_LIMIT == 100
DEFAULT_TOKEN_LIMIT == 1000000

\* the digit cap of check_integer
MAX_INT_DIGITS == 20

(***************************************************************************)
(* error.rs: BdecodeError values                                           *)
(***************************************************************************)

\* Err(BdecodeError::<kind>(arg)), arg a position or a limit
Err(kind, arg) == [ok |-> FALSE, kind |-> kind, arg |-> arg, msg |-> <<>>]

\* Err(BdecodeError::Overflow(msg))
ErrOverflow(msg) == [ok |-> FALSE, kind |-> "Overflow", arg |-> 0, msg |-> msg]

\* a panic: a failed assert!/expect, or a trapped arithmetic overflow
Panic(msg) == [ok |-> FALSE, kind |-> "panic", arg |-> 0, msg |-> <<msg>>]

(***************************************************************************)
(* decode/utils.rs: parse_uint                                             *)
(*   val is a numeral; overflow_checks tells whether the build traps       *)
(*   arithmetic overflow (debug profile) or wraps (release profile).       *)
(***************************************************************************)

RECURSIVE parse_uint(_, _, _, _, _)
parse_uint(buffer, start, delimiter, val, overflow_checks) ==
    IF ~(start < BufLen(buffer) /\ BufAt(buffer, start) # delimiter)
    THEN [ok |-> TRUE, start |-> start, val |-> val]
    ELSE LET t == BufAt(buffer, start) IN
         IF ~is_ascii_digit(t)
         THEN Err("ExpectedDigit", start)
         ELSE IF NumGreater(val, NumDiv10(I64_MAX))
         THEN ErrOverflow(NumText(val) \o <<"0">>)
         ELSE LET val10 == NumMul10(val)
                  digit == DigitVal(t)
              IN  IF NumGreater(val10, NumSubDigit(I64_MAX, digit))
                  THEN \* format!("{}", *val + digit) adds past i64::MAX
                       IF overflow_checks
                       THEN Panic("attempt to add with overflow")
                       ELSE ErrOverflow(<<"wrapped">>)
                  ELSE parse_uint(buffer, start + 1, delimiter,
                                  NumAddDigit(val10, digit), overflow_checks)

(***************************************************************************)
(* decode/utils.rs: check_integer                                          *)
(***************************************************************************)

\* a cap at the 19 digits an i64 can need
TooManyDigits_Over19(digits) == digits > 19

\* digits > 20 (utils.rs 86)
TooManyDigits(digits) == digits > MAX_INT_DIGITS

\* the `while buffer[start] != b'e'` loop, with its digit counter
RECURSIVE check_integer_loop(_, _, _, _)
check_integer_loop(buffer, orgin_start, start, digits) ==
    IF BufAt(buffer, start) = "e"
    THEN IF TooManyDigits(digits)
         THEN ErrOverflow(BufSlice(buffer, orgin_start, start))
         ELSE [ok |-> TRUE, start |-> start]
    ELSE IF ~is_ascii_digit(BufAt(buffer, start))
    THEN Err("ExpectedDigit", start)
    ELSE IF start + 1 >= BufLen(buffer)
    THEN Err("UnexpectedEof", start + 1)
    ELSE check_integer_loop(buffer, orgin_start, start + 1, digits + 1)

check_integer(buffer, start) ==
    IF BufLen(buffer) = 0 THEN Err("UnexpectedEof", 0)
    ELSE IF start >= BufLen(buffer) THEN Err("UnexpectedEof", start)
    ELSE IF BufAt(buffer, start) = "-"
    THEN IF start + 1 = BufLen(buffer)
         THEN Err("UnexpectedEof", start + 1)
         ELSE check_integer_loop(buffer, start, start + 1, 0)
    ELSE check_integer_loop(buffer, start, start, 0)

(***************************************************************************)
(* token.rs: BdecodeToken, a 64-bit record of four bit-fields              *)
(***************************************************************************)

\* the builder packs offset:29, node_type:3, next_item:29, header_size:3
new_all(offset, node_type, next_item, head_size) ==
    [offset      |-> offset % 2^29,
     node_type   |-> node_type,
     next_item   |-> next_item % 2^29,
     header_size |-> head_size % 2^3]

new_dict(offset, next_item) == new_all(offset, "Dict", next_item, 0)
new_list(offset, next_item) == new_all(offset, "List", next_item, 0)
new_int(offset) == new_all(offset, "Int", 1, 0)
new_end(offset) == new_all(offset, "End", 1, 0)
new_str(offset, head_size) == new_all(offset, "Str", 1, head_size)

\* tokens[i] with the code's 0-based index
TokAt(toks, i) == toks[i + 1]

\* tokens[i].set_next_item(n)
set_next_item(toks, i, n) == [toks EXCEPT ![i + 1].next_item = n % 2^29]

(***************************************************************************)
(* decode/stack_frame.rs: StackFrame {token:31, state:1}, and the          *)
(* Vec<StackFrame> of open containers.  mem holds every slot written so    *)
(* far (Vec::pop leaves the slot's bytes in place), len is stack.len().    *)
(***************************************************************************)

\* StackFrameBuilder::new().with_token(t).build(); the 31-bit token field holds
\* every index this model can count to, so nothing is cut off
NewFrame(t) == [token |-> t, state |-> 0]

\* Vec::with_capacity(depth_limit)
NewStack(capacity) == [mem |-> <<>>, len |-> 0, cap |-> capacity, moved |-> FALSE]

\* a push that writes the token field only and keeps the state bit the slot held
StackPush_KeepState(s, frame) ==
    [mem   |-> IF s.len < Len(s.mem)
               THEN [s.mem EXCEPT ![s.len + 1].token = frame.token]
               ELSE Append(s.mem, frame),
     len   |-> s.len + 1,
     cap   |-> IF s.len >= s.cap THEN (IF s.cap = 0 THEN 4 ELSE 2 * s.cap) ELSE s.cap,
     moved |-> s.moved \/ s.len >= s.cap]

\* stack.push(frame): reallocates (moving every slot) when len = capacity
StackPush(s, frame) ==
    [mem   |-> IF s.len < Len(s.mem)
               THEN [s.mem EXCEPT ![s.len + 1] = frame]
               ELSE Append(s.mem, frame),
     len   |-> s.len + 1,
     cap   |-> IF s.len >= s.cap THEN (IF s.cap = 0 THEN 4 ELSE 2 * s.cap) ELSE s.cap,
     moved |-> s.moved \/ s.len >= s.cap]

\* stack.pop()
StackPop(s) == [s EXCEPT !.len = s.len - 1]

\* stack.last(), for a non-empty stack
StackLast(s) == s.mem[s.len]

\* current_frame_ptr = None
NoFrame == 0

\* a saved pointer that stays on the outermost frame
LastFramePtr_Bottom(s) == IF s.len = 0 THEN NoFrame ELSE 1

\* stack.last_mut().map(|f| f as *mut StackFrame): the slot number of the top frame
LastFramePtr(s) == IF s.len = 0 THEN NoFrame ELSE s.len

\* a state bit that is never flipped
FlipState_Keep(state) == state

\* stack_frame.set_state(!stack_frame.state()): bitwise NOT of a u8, kept to 1 bit
FlipState(state) == (255 - state) % 2

\* the write through current_frame_ptr at the end of an iteration
FlipFrame(s, toks, ptr) ==
    IF ptr # NoFrame /\ TokAt(toks, s.mem[ptr].token).node_type = "Dict"
    THEN [s EXCEPT !.mem[ptr].state = FlipState(s.mem[ptr].state)]
    ELSE s

(***************************************************************************)
(* decode/utils.rs: gen_item_indexes                                       *)
(***************************************************************************)

\* a Dict arm that keeps the odd walk positions (the values) instead of the keys
RECURSIVE DictWalk_OddPositions(_, _, _, _)
DictWalk_OddPositions(toks, begin, count, node_indexes) ==
    IF begin >= Len(toks) THEN Panic("index out of bounds")
    ELSE IF TokAt(toks, begin).node_type = "End"
    THEN [ok |-> TRUE, item_indexes |-> node_indexes, len |-> count \div 2]
    ELSE IF TokAt(toks, begin).next_item = 0 THEN Panic("no progress")
    ELSE DictWalk_OddPositions(toks, begin + TokAt(toks, begin).next_item, count + 1,
                  IF count % 2 = 1 THEN Append(node_indexes, begin) ELSE node_indexes)

\* the Dict arm's loop; gives up where the code would index past the array or
\* spin on a skip distance of 0
RECURSIVE DictWalk(_, _, _, _)
DictWalk(toks, begin, count, node_indexes) ==
    IF begin >= Len(toks) THEN Panic("index out of bounds")
    ELSE IF TokAt(toks, begin).node_type = "End"
    THEN [ok |-> TRUE, item_indexes |-> node_indexes, len |-> count \div 2]
    ELSE IF TokAt(toks, begin).next_item = 0 THEN Panic("no progress")
    ELSE DictWalk(toks, begin + TokAt(toks, begin).next_item, count + 1,
                  IF count % 2 = 0 THEN Append(node_indexes, begin) ELSE node_indexes)

\* the List arm's loop
RECURSIVE ListWalk(_, _, _, _)
ListWalk(toks, begin, count, node_indexes) ==
    IF begin >= Len(toks) THEN Panic("index out of bounds")
    ELSE IF TokAt(toks, begin).node_type = "End"
    THEN [ok |-> TRUE, item_indexes |-> node_indexes, len |-> count]
    ELSE IF TokAt(toks, begin).next_item = 0 THEN Panic("no progress")
    ELSE ListWalk(toks, begin + TokAt(toks, begin).next_item, count + 1,
                  Append(node_indexes, begin))

gen_item_indexes(toks, start_token_idx) ==
    IF ~(start_token_idx < Len(toks))
    THEN Panic("assertion failed: start_token_idx < tokens.len()")
    ELSE IF Len(toks) < 2
    THEN [ok |-> TRUE, item_indexes |-> <<>>, len |-> 0]
    ELSE CASE TokAt(toks, start_token_idx).node_type = "Dict"
                -> DictWalk(toks, 1 + start_token_idx, 0, <<>>)
           [] TokAt(toks, start_token_idx).node_type = "List"
                -> ListWalk(toks, 1 + start_token_idx, 0, <<>>)
           [] OTHER -> [ok |-> TRUE, item_indexes |-> <<>>, len |-> 0]

(***************************************************************************)
(* decode.rs: BdecodeNode::new, the view on one token                      *)
(***************************************************************************)

NoNode == [ok |-> FALSE, kind |-> "none", token_index |-> 0, item_indexes |-> <<>>,
           len |-> 0]

\* BdecodeNode::new(token_idx, tokens, buffer)
NewNode(toks, token_idx) ==
    IF ~(token_idx < Len(toks)) THEN NoNode
    ELSE LET ty == TokAt(toks, token_idx).node_type
             g  == IF ty \in {"Dict", "List"}
                   THEN gen_item_indexes(toks, token_idx)
                   ELSE [ok |-> TRUE, item_indexes |-> <<>>, len |-> 0]
         IN  IF ~g.ok THEN NoNode
             ELSE [ok |-> TRUE, kind |-> ty, token_index |-> token_idx,
                   item_indexes |-> g.item_indexes, len |-> g.len]

(***************************************************************************)
(* decode/int.rs: Int::value;  decode/str.rs: Str::value                   *)
(***************************************************************************)

\* Ok(val) or Ok(-val) of an i64 held as sign and magnitude
OkInt(negative, val) ==
    [ok |-> TRUE, kind |-> "Ok", neg |-> negative /\ val # NumZero, mag |-> val]

Int_value(toks, buf, token_index, overflow_checks) ==
    LET t     == TokAt(toks, token_index)
        size  == TokAt(toks, token_index + 1).offset - t.offset
        st    == t.offset + 1
    IN  IF ~(st < BufLen(buf)) THEN Panic("index out of bounds")
        ELSE LET negative == BufAt(buf, st) = "-"
                 r        == parse_uint(buf, st, "e", NumZero, overflow_checks)
             IN  IF ~r.ok THEN r
                 ELSE IF ~(r.start < st + size)
                 THEN Panic("assertion failed: end < (start + size) as usize")
                 ELSE OkInt(negative, r.val)

\* a slice that starts on the ':' instead of after it
Str_value_FromColon(toks, buf, token_index) ==
    LET token == TokAt(toks, token_index)
    IN  [ok |-> TRUE, kind |-> "Ok",
         bytes |-> BufSlice(buf, token.offset + token.header_size,
                            TokAt(toks, token_index + 1).offset)]

Str_value(toks, buf, token_index) ==
    LET token == TokAt(toks, token_index)
        from  == token.offset + token.header_size + 1
        to    == TokAt(toks, token_index + 1).offset
    IN  IF from > to \/ to > BufLen(buf)
        THEN Panic("slice index out of range")
        ELSE [ok |-> TRUE, kind |-> "Ok", bytes |-> BufSlice(buf, from, to)]

(***************************************************************************)
(* decode.rs: BdecodeNode::parse, the tokenizer                            *)
(***************************************************************************)

VARIABLES
    call,               \* the arguments of the call: depth_limit, token_limit (Option)
    buffer,             \* buffer: Vec<u8>
    depth_limit,        \* depth_limit.unwrap_or(DEFAULT_DEPTH_LIMIT)
    token_limit,        \* the remaining token budget (i32)
    tokens,             \* tokens: Vec<BdecodeToken>
    start,              \* the cursor
    stack,              \* stack: Vec<StackFrame>
    current_frame_ptr,  \* Option<*mut StackFrame>
    pc,                 \* where the program stands: entry, loop, term, done, error, panic
    result,             \* what parse returned
    node,               \* the BdecodeNode view the caller holds
    ret                 \* what the caller's last accessor call returned

vars == <<call, buffer, depth_limit, token_limit, tokens, start, stack,
          current_frame_ptr, pc, result, node, ret>>

None == -1

NoResult == [ok |-> FALSE, kind |-> "none", arg |-> 0, msg |-> <<>>]
OkResult == [ok |-> TRUE, kind |-> "Ok", arg |-> 0, msg |-> <<>>]

\* let end = buffer.len()
end == BufLen(buffer)

\* a key check that lets every byte that can start a value through
KeyByteAllowed_AnyValue(t) == is_ascii_digit(t) \/ t \in {"e", "i", "l", "d"}

\* the bytes the key check lets through: a digit or 'e' (decode.rs 224-227)
KeyByteAllowed(t) == is_ascii_digit(t) \/ t = "e"

\* the checks at the head of a loop iteration (decode.rs 203-231); token_limit has
\* been decremented when the second one is made
LoopHead ==
    IF stack.len >= depth_limit
    THEN Err("DepthExceeded", depth_limit)
    ELSE IF token_limit - 1 < 0
    THEN Err("LimitExceeded", DEFAULT_TOKEN_LIMIT)
    ELSE IF ~(start < end)
    THEN Err("UnexpectedEof", start)
    ELSE LET t == BufAt(buffer, start) IN
         IF current_frame_ptr # NoFrame
            /\ TokAt(tokens, stack.mem[current_frame_ptr].token).node_type = "Dict"
            /\ stack.mem[current_frame_ptr].state = 0
            /\ ~KeyByteAllowed(t)
         THEN Err("ExpectedDigit", start)
         ELSE OkResult

\* the byte the iteration dispatches on
CurByte == BufAt(buffer, start)

\* the iteration returns an error: nothing but the budget has changed
Fail(e) ==
    /\ pc' = "error"
    /\ result' = e
    /\ UNCHANGED <<call, buffer, depth_limit, tokens, start, stack, current_frame_ptr,
                   node, ret>>

\* a loop that goes on to the end of the buffer, reading value after value
LoopExits_AtBufferEnd(stack1, start1) == ~(start1 < end)

\* the loop is left: `if stack.is_empty() { break; }` (decode.rs 385-387) or the
\* condition of `while start <= end` (decode.rs 202)
LoopExits(stack1, start1) == stack1.len = 0 \/ ~(start1 <= end)

\* the end of an iteration that emitted a token (decode.rs 355-387): the parity
\* flip through the saved pointer, the new saved pointer, the loop exit
EndIteration(tokens1, stack1, start1) ==
    /\ tokens' = tokens1
    /\ start' = start1
    /\ stack' = FlipFrame(stack1, tokens1, current_frame_ptr)
    /\ current_frame_ptr' = LastFramePtr(stack1)
    /\ pc' = IF LoopExits(stack1, start1) THEN "term" ELSE "loop"
    /\ UNCHANGED <<call, buffer, depth_limit, result, node, ret>>

\* no length check at all
BufferTooLong_Never(len) == FALSE

\* a length check that already turns away a buffer of exactly the largest length
BufferTooLong_AtLimit(len) == len >= BUFFER_MAX_OFFSET

\* buffer.len() > BUFFER_MAX_OFFSET as usize (decode.rs 184)
BufferTooLong(len) == len > BUFFER_MAX_OFFSET

\* entry of parse (decode.rs 179-200)
ParseEntry ==
    /\ pc = "entry"
    /\ UNCHANGED token_limit
    /\ IF BufferTooLong(BufLen(buffer))
       THEN Fail(Err("LimitExceeded", BufLen(buffer)))
       ELSE IF end = 0
       THEN Fail(Err("UnexpectedEof", 0))
       ELSE /\ pc' = "loop"
            /\ UNCHANGED <<call, buffer, depth_limit, tokens, start, stack,
                           current_frame_ptr, result, node, ret>>

\* an iteration stopped by one of the checks at its head
LoopReject ==
    /\ pc = "loop"
    /\ ~LoopHead.ok
    /\ token_limit' = IF stack.len >= depth_limit THEN token_limit ELSE token_limit - 1
    /\ Fail(LoopHead)

\* b'd' (decode.rs 234-243)
OpenDict ==
    /\ pc = "loop"
    /\ LoopHead.ok
    /\ CurByte = "d"
    /\ token_limit' = token_limit - 1
    /\ EndIteration(Append(tokens, new_dict(start, 0)),
                    StackPush(stack, NewFrame(Len(tokens))),
                    start + 1)

\* b'l' (decode.rs 244-253)
OpenList ==
    /\ pc = "loop"
    /\ LoopHead.ok
    /\ CurByte = "l"
    /\ token_limit' = token_limit - 1
    /\ EndIteration(Append(tokens, new_list(start, 0)),
                    StackPush(stack, NewFrame(Len(tokens))),
                    start + 1)

\* b'i' (decode.rs 254-263)
IntToken ==
    /\ pc = "loop"
    /\ LoopHead.ok
    /\ CurByte = "i"
    /\ token_limit' = token_limit - 1
    /\ LET r == check_integer(buffer, start + 1) IN
       IF ~r.ok THEN Fail(r)
       ELSE IF BufAt(buffer, r.start) # "e"
       THEN Fail(Panic("assertion failed: buffer[start] == b'e'"))
       ELSE EndIteration(Append(tokens, new_int(start)), stack, r.start + 1)

\* an off-by-one back-patch: the distance taken before the End token is counted
NextItem_BeforeEnd(tokens1, top) == Len(tokens1) - 1 - top

\* let next_item = tokens.len() - top (decode.rs 286-287), the End token pushed
NextItem(tokens1, top) == Len(tokens1) - top

\* b'e' (decode.rs 264-298)
CloseContainer ==
    /\ pc = "loop"
    /\ LoopHead.ok
    /\ CurByte = "e"
    /\ token_limit' = token_limit - 1
    /\ IF stack.len = 0
       THEN Fail(Err("UnexpectedEof", start))
       ELSE IF TokAt(tokens, StackLast(stack).token).node_type = "Dict"
               /\ StackLast(stack).state = 1
       THEN Fail(Err("ExpectedValue", start))
       ELSE LET tokens1   == Append(tokens, new_end(start))
                top       == StackLast(stack).token
                next_item == NextItem(tokens1, top)
            IN  IF next_item > MAX_NEXT_ITEM
                THEN Fail(Err("LimitExceeded", MAX_NEXT_ITEM))
                ELSE EndIteration(set_next_item(tokens1, top, next_item),
                                  StackPop(stack), start + 1)

\* a cursor left on the first payload byte
SkipPayload_Stay(pos, len) == pos

\* start += len as usize (decode.rs 350)
SkipPayload(pos, len) == pos + NumToNat(len)

\* a cap one digit too generous
HeaderTooLong_Over8(header_size) == header_size > MAX_HEADER_SIZE + 1

\* header_size > limits::MAX_HEADER_SIZE (decode.rs 344)
HeaderTooLong(header_size) == header_size > MAX_HEADER_SIZE

\* the string arm up to the token it emits (decode.rs 301-350):
\* an error, or the header size and the cursor after the payload
StrBranch(overflow_checks) ==
    IF ~is_ascii_digit(CurByte)
    THEN Err("ExpectedDigit", start)
    ELSE IF start + 1 >= end
    THEN Err("UnexpectedEof", start + 1)
    ELSE LET r == parse_uint(buffer, start + 1, ":", <<DigitVal(CurByte)>>,
                             overflow_checks)
         IN  IF ~r.ok THEN r
             ELSE IF r.start = end
             THEN Err("ExpectedColon", start)
             ELSE IF NumGreater(r.val, NatToNum(end - r.start - 1))
             THEN Err("UnexpectedEof", r.start)
             ELSE IF r.start + 1 > end
             THEN Err("UnexpectedEof", r.start + 1)
             ELSE LET header_size == (r.start + 1) - start - 1 IN
                  IF HeaderTooLong(header_size)
                  THEN Err("LimitExceeded", MAX_HEADER_SIZE)
                  ELSE [ok |-> TRUE, header_size |-> header_size,
                        start |-> SkipPayload(r.start + 1, r.val)]

\* any other byte (decode.rs 300-351)
StrToken ==
    /\ pc = "loop"
    /\ LoopHead.ok
    /\ CurByte \notin {"d", "l", "i", "e"}
    /\ token_limit' = token_limit - 1
    /\ \E overflow_checks \in BOOLEAN :
         LET r == StrBranch(overflow_checks) IN
         IF ~r.ok THEN Fail(r)
         ELSE EndIteration(Append(tokens, new_str(start, r.header_size)), stack, r.start)

\* a token array handed over without its terminator
Terminated_Bare(toks, pos) == toks

\* tokens.push(BdecodeToken::new_end(start as u32)) (decode.rs 390-391)
Terminated(toks, pos) == Append(toks, new_end(pos))

\* after the loop (decode.rs 390-393): the synthetic End token
Finish ==
    /\ pc = "term"
    /\ tokens' = Terminated(tokens, start)
    /\ pc' = "done"
    /\ result' = OkResult
    /\ node' = NewNode(tokens', 0)
    /\ UNCHANGED <<call, buffer, depth_limit, token_limit, start, stack, current_frame_ptr,
                   ret>>

(***************************************************************************)
(* decode.rs, decode/list.rs, decode/dict.rs: the navigation layer         *)
(***************************************************************************)

NoRet == [op |-> "none", ok |-> FALSE, kind |-> "none"]

\* an accessor that hands its result over and drops the token array
Return_DropTokens(op, v) ==
    /\ ret' = [op |-> op] @@ v
    /\ pc' = IF ~v.ok /\ v.kind = "panic" THEN "panic" ELSE "done"
    /\ tokens' = <<>>
    /\ UNCHANGED <<call, buffer, depth_limit, token_limit, start, stack,
                   current_frame_ptr, result>>

\* an accessor returns v to the caller; it takes &self, and the buffer and the token
\* array are behind Arc
Return(op, v) ==
    /\ ret' = [op |-> op] @@ v
    /\ pc' = IF ~v.ok /\ v.kind = "panic" THEN "panic" ELSE "done"
    /\ UNCHANGED <<call, buffer, depth_limit, token_limit, tokens, start, stack,
                   current_frame_ptr, result>>

\* BdecodeNode::as_int (decode.rs 76-82)
AsInt ==
    /\ pc = "done"
    /\ UNCHANGED node
    /\ \E overflow_checks \in BOOLEAN :
         IF node.kind # "Int" THEN Return("as_int", Panic("not a Int node"))
         ELSE Return("as_int", Int_value(tokens, buffer, node.token_index, overflow_checks))

\* BdecodeNode::as_str (decode.rs 84-90)
AsStr ==
    /\ pc = "done"
    /\ UNCHANGED node
    /\ IF node.kind # "Str" THEN Return("as_str", Panic("not a Str node"))
       ELSE Return("as_str", Str_value(tokens, buffer, node.token_index))

\* a bound check that also refuses the last element
List_item_RefusesLast(toks, view, index) ==
    IF index + 1 >= view.len THEN Panic("index out of range")
    ELSE NewNode(toks, view.item_indexes[index + 1])

\* List::item (decode/list.rs 12-22), Ok(view) or the panic
List_item(toks, view, index) ==
    IF index >= view.len THEN Panic("index out of range")
    ELSE NewNode(toks, view.item_indexes[index + 1])

\* BdecodeNode::list_item (decode.rs 102-108): the caller goes on with the item
ListItem(index) ==
    /\ pc = "done"
    /\ LET v == IF node.kind # "List" THEN Panic("not a List node")
                ELSE List_item(tokens, node, index)
       IN  /\ node' = IF v.ok THEN v ELSE node
           /\ Return("list_item", IF node.kind # "List" THEN v ELSE [index |-> index] @@ v)

\* Dict::item (decode/dict.rs 9-29): the pair of views, or the panic
Dict_item(toks, view, index) ==
    IF index >= view.len THEN Panic("index out of range")
    ELSE LET key_token_idx == view.item_indexes[index + 1] IN
         IF key_token_idx >= Len(toks) THEN Panic("index out of range in tokens")
         ELSE [ok |-> TRUE, kind |-> "Ok",
               key |-> NewNode(toks, key_token_idx),
               val |-> NewNode(toks, key_token_idx + TokAt(toks, key_token_idx).next_item)]

\* BdecodeNode::dict_item (decode.rs 126-132): the caller goes on with the key
\* or with the value
DictItem(index, pick) ==
    /\ pc = "done"
    /\ LET v == IF node.kind # "Dict" THEN Panic("not a Dict node")
                ELSE Dict_item(tokens, node, index)
       IN  /\ node' = IF v.ok THEN (IF pick = "key" THEN v.key ELSE v.val) ELSE node
           /\ Return("dict_item", IF node.kind # "Dict" THEN v ELSE [index |-> index] @@ v)

(***************************************************************************)
(* decode/dict.rs: Dict::find and the find_as_* family, with the           *)
(* BdecodeNode::dict_find* wrappers of decode.rs                           *)
(***************************************************************************)

\* Option: None and Some(v)
OptNone == [ok |-> TRUE, kind |-> "None"]
OptSome(v) == [ok |-> TRUE, kind |-> "Some", val |-> v]

\* a scan that keeps going after a match and returns the last one
RECURSIVE Dict_find_from_Last(_, _, _, _, _)
Dict_find_from_Last(toks, buf, view, key, i) ==
    IF i > Len(view.item_indexes) THEN OptNone
    ELSE LET token_index == view.item_indexes[i]
             token       == TokAt(toks, token_index)
             next_offset == TokAt(toks, token_index + 1).offset
             st          == token.offset + token.header_size + 1
             later       == Dict_find_from_Last(toks, buf, view, key, i + 1)
         IN  IF later.kind = "Some" THEN later
             ELSE IF BufSlice(buf, st, next_offset) = key
             THEN OptSome(NewNode(toks, token_index + token.next_item))
             ELSE OptNone

\* the loop of Dict::find over item_indexes, from its i-th element on
\* (dict.rs 35-46)
RECURSIVE Dict_find_from(_, _, _, _, _)
Dict_find_from(toks, buf, view, key, i) ==
    IF i > Len(view.item_indexes) THEN OptNone
    ELSE LET token_index == view.item_indexes[i]
             token       == TokAt(toks, token_index)
         IN  IF token.node_type # "Str"
             THEN Panic("assertion failed: token.node_type() == BdecodeTokenType::Str")
             ELSE LET next_offset == TokAt(toks, token_index + 1).offset
                      st          == token.offset + token.header_size + 1
                  IN  IF st > next_offset \/ next_offset > BufLen(buf)
                      THEN Panic("slice index out of range")
                      ELSE IF BufSlice(buf, st, next_offset) = key
                      THEN OptSome(NewNode(toks, token_index + token.next_item))
                      ELSE Dict_find_from(toks, buf, view, key, i + 1)

\* Dict::find (dict.rs 32-49)
Dict_find(toks, buf, view, key) == Dict_find_from(toks, buf, view, key, 1)

\* a find_as_str that checks the kind of the value before it reads it
Dict_find_as_str_Checked(toks, buf, view, key) ==
    LET f == Dict_find(toks, buf, view, key) IN
    IF ~f.ok \/ f.kind = "None" THEN f
    ELSE IF f.val.kind # "Str" THEN OptNone
    ELSE OptSome(Str_value(toks, buf, f.val.token_index).bytes)

\* Dict::find_as_str (dict.rs 51-65): node.as_str() panics on another kind
Dict_find_as_str(toks, buf, view, key) ==
    LET f == Dict_find(toks, buf, view, key) IN
    IF ~f.ok \/ f.kind = "None" THEN f
    ELSE IF f.val.kind # "Str" THEN Panic("not a Str node")
    ELSE LET v == Str_value(toks, buf, f.val.token_index)
         IN  IF ~v.ok THEN v ELSE OptSome(v.bytes)

\* Dict::find_as_int (dict.rs 67-75): node.as_int() panics on another kind, and
\* .ok() turns every error of Int::value into None
Dict_find_as_int(toks, buf, view, key, overflow_checks) ==
    LET f == Dict_find(toks, buf, view, key) IN
    IF ~f.ok \/ f.kind = "None" THEN f
    ELSE IF f.val.kind # "Int" THEN Panic("not a Int node")
    ELSE LET v == Int_value(toks, buf, f.val.token_index, overflow_checks)
         IN  IF v.ok THEN OptSome([neg |-> v.neg, mag |-> v.mag])
             ELSE IF v.kind = "panic" THEN v
             ELSE OptNone

\* Dict::find_as_list (dict.rs 77-95)
Dict_find_as_list(toks, buf, view, key) ==
    LET f == Dict_find(toks, buf, view, key) IN
    IF ~f.ok \/ f.kind = "None" THEN f
    ELSE IF f.val.kind # "List" THEN OptNone
    ELSE OptSome([i \in 1..f.val.len |-> List_item(toks, f.val, i - 1)])

\* Dict::find_as_dict (dict.rs 97-118): a HashMap from key bytes to value views,
\* a later entry replacing an earlier one of the same key
Dict_find_as_dict(toks, buf, view, key) ==
    LET f == Dict_find(toks, buf, view, key) IN
    IF ~f.ok \/ f.kind = "None" THEN f
    ELSE IF f.val.kind # "Dict" THEN OptNone
    ELSE LET key_of(i) == Str_value(toks, buf, Dict_item(toks, f.val, i).key.token_index).bytes
             last(k)   == CHOOSE i \in 0..(f.val.len - 1) :
                             /\ key_of(i) = k
                             /\ \A j \in (i + 1)..(f.val.len - 1) : key_of(j) # k
         IN  OptSome([k \in { key_of(i) : i \in 0..(f.val.len - 1) } |->
                         Dict_item(toks, f.val, last(k)).val])

\* BdecodeNode::dict_find (decode.rs 134-140): the caller goes on with the value
DictFind(key) ==
    /\ pc = "done"
    /\ LET v == IF node.kind # "Dict" THEN Panic("not a Dict node")
                ELSE Dict_find(tokens, buffer, node, key)
       IN  /\ node' = IF v.ok /\ v.kind = "Some" THEN v.val ELSE node
           /\ Return("dict_find", IF node.kind # "Dict" THEN v ELSE [key |-> key] @@ v)

\* BdecodeNode::dict_find_as_str (decode.rs 142-148)
DictFindAsStr(key) ==
    /\ pc = "done"
    /\ UNCHANGED node
    /\ Return("dict_find_as_str",
              IF node.kind # "Dict" THEN Panic("not a Dict node")
              ELSE [key |-> key] @@ Dict_find_as_str(tokens, buffer, node, key))

\* BdecodeNode::dict_find_as_int (decode.rs 150-156)
DictFindAsInt(key) ==
    /\ pc = "done"
    /\ UNCHANGED node
    /\ \E overflow_checks \in BOOLEAN :
         Return("dict_find_as_int",
                IF node.kind # "Dict" THEN Panic("not a Dict node")
                ELSE [key |-> key] @@ Dict_find_as_int(tokens, buffer, node, key,
                                                       overflow_checks))

\* BdecodeNode::dict_find_as_list (decode.rs 158-164)
DictFindAsList(key) ==
    /\ pc = "done"
    /\ UNCHANGED node
    /\ Return("dict_find_as_list",
              IF node.kind # "Dict" THEN Panic("not a Dict node")
              ELSE [key |-> key] @@ Dict_find_as_list(tokens, buffer, node, key))

\* BdecodeNode::dict_find_as_dict (decode.rs 166-172)
DictFindAsDict(key) ==
    /\ pc = "done"
    /\ UNCHANGED node
    /\ Return("dict_find_as_dict",
              IF node.kind # "Dict" THEN Panic("not a Dict node")
              ELSE [key |-> key] @@ Dict_find_as_dict(tokens, buffer, node, key))

(***************************************************************************)
(* decode.rs, decode/list.rs: len and the list_item_as_* helpers           *)
(***************************************************************************)

\* BdecodeNode::len (decode.rs 92-100, macros.rs 85-92)
NodeLen ==
    /\ pc = "done"
    /\ UNCHANGED node
    /\ Return("len", IF node.kind \notin {"List", "Dict"}
                     THEN Panic("not a List or Dict node")
                     ELSE [ok |-> TRUE, kind |-> "Ok", len |-> node.len])

\* List::as_int (list.rs 24-26): self.item(index).as_int()
List_as_int(toks, buf, view, index, overflow_checks) ==
    LET item == List_item(toks, view, index) IN
    IF ~item.ok THEN item
    ELSE IF item.kind # "Int" THEN Panic("not a Int node")
    ELSE Int_value(toks, buf, item.token_index, overflow_checks)

\* List::as_str (list.rs 28-36): self.item(index).as_str()
List_as_str(toks, buf, view, index) ==
    LET item == List_item(toks, view, index) IN
    IF ~item.ok THEN item
    ELSE IF item.kind # "Str" THEN Panic("not a Str node")
    ELSE Str_value(toks, buf, item.token_index)

\* BdecodeNode::list_item_as_int (decode.rs 110-116)
ListItemAsInt(index) ==
    /\ pc = "done"
    /\ UNCHANGED node
    /\ \E overflow_checks \in BOOLEAN :
         Return("list_item_as_int",
                IF node.kind # "List" THEN Panic("not a List node")
                ELSE [index |-> index] @@ List_as_int(tokens, buffer, node, index,
                                                      overflow_checks))

\* BdecodeNode::list_item_as_str (decode.rs 118-124)
ListItemAsStr(index) ==
    /\ pc = "done"
    /\ UNCHANGED node
    /\ Return("list_item_as_str",
              IF node.kind # "List" THEN Panic("not a List node")
              ELSE [index |-> index] @@ List_as_str(tokens, buffer, node, index))

(***************************************************************************)
(* decode.rs, decode/int.rs, decode/str.rs, decode/list.rs, decode/dict.rs:*)
(* the JSON renderer.  A String is the sequence of its characters.         *)
(***************************************************************************)

\* pub const IDENT_LEN: usize = 4
IDENT_LEN == 4

\* enum Style { Compact, Pretty(usize) }
Compact == [pretty |-> FALSE, span |-> 0]
Pretty(span) == [pretty |-> TRUE, span |-> span]

\* a rendered String
Text(s) == [ok |-> TRUE, kind |-> "Ok", text |-> s]

\* gen_blanks (utils.rs 130-136)
gen_blanks(span) == [k \in 1..span |-> " "]

\* escape_char (utils.rs 138-146); every byte the buffers here are made of is
\* ASCII graphic and not '"', so it is printed as it is
escape_char(byte) ==
    IF byte = "\"" THEN <<"\\", "x", "2", "2">> ELSE <<byte>>

\* escape_string (utils.rs 148-155)
RECURSIVE escape_string(_)
escape_string(bytes) ==
    IF bytes = <<>> THEN <<>>
    ELSE escape_char(Head(bytes)) \o escape_string(Tail(bytes))

\* Int::to_json_with_style (int.rs 35-37):
\* self.value().expect("parse to int failed").to_string()
Int_to_json(toks, buf, token_index, overflow_checks) ==
    LET v == Int_value(toks, buf, token_index, overflow_checks) IN
    IF v.ok THEN Text((IF v.neg THEN <<"-">> ELSE <<>>) \o NumText(v.mag))
    ELSE IF v.kind = "panic" THEN v
    ELSE Panic("parse to int failed")

\* Str::to_json_with_style (str.rs 25-27)
Str_to_json(toks, buf, token_index) ==
    LET v == Str_value(toks, buf, token_index) IN
    IF ~v.ok THEN v
    ELSE Text(<<"\"">> \o escape_string(v.bytes) \o <<"\"">>)

RECURSIVE to_json_with_style(_, _, _, _, _)
RECURSIVE List_to_json_loop(_, _, _, _, _, _, _)
RECURSIVE Dict_to_json_loop(_, _, _, _, _, _)

\* the `for i in 0..len` loop of List::to_json_with_style (list.rs 42-60)
List_to_json_loop(toks, buf, view, style, overflow_checks, i, sb) ==
    IF i >= view.len THEN Text(sb)
    ELSE LET val  == List_item(toks, view, i)
             span == style.span + IDENT_LEN
             r    == to_json_with_style(toks, buf, val,
                                        IF style.pretty THEN Pretty(span) ELSE Compact,
                                        overflow_checks)
         IN  IF ~r.ok THEN r
             ELSE List_to_json_loop(toks, buf, view, style, overflow_checks, i + 1,
                      sb \o (IF style.pretty THEN gen_blanks(span) ELSE <<>>) \o r.text
                         \o (IF i < view.len - 1
                             THEN <<",">> \o (IF style = Compact THEN <<" ">> ELSE <<"\n">>)
                             ELSE <<>>))

\* List::to_json_with_style (list.rs 38-68)
List_to_json(toks, buf, view, style, overflow_checks) ==
    LET r == List_to_json_loop(toks, buf, view, style, overflow_checks, 0, <<>>) IN
    IF ~r.ok THEN r
    ELSE IF style.pretty
    THEN Text(<<"[", "\n">> \o r.text \o <<"\n">> \o gen_blanks(style.span) \o <<"]">>)
    ELSE Text(<<"[">> \o r.text \o <<"]">>)

\* the `for i in 0..len` loop of Dict::to_json (dict.rs 124-131); key.to_json() and
\* val.to_json() render in the compact style
Dict_to_json_loop(toks, buf, view, overflow_checks, i, sb) ==
    IF i >= view.len THEN Text(sb)
    ELSE LET kv == Dict_item(toks, view, i) IN
         IF ~kv.ok THEN kv
         ELSE LET k == to_json_with_style(toks, buf, kv.key, Compact, overflow_checks) IN
              IF ~k.ok THEN k
              ELSE LET v == to_json_with_style(toks, buf, kv.val, Compact, overflow_checks)
                   IN  IF ~v.ok THEN v
                       ELSE Dict_to_json_loop(toks, buf, view, overflow_checks, i + 1,
                                sb \o k.text \o <<":", " ">> \o v.text
                                   \o (IF i < view.len - 1 THEN <<",", " ">> ELSE <<>>))

\* Dict::to_json (dict.rs 120-134), the renderer decode/dict.rs has for a Dict
Dict_to_json(toks, buf, view, overflow_checks) ==
    LET r == Dict_to_json_loop(toks, buf, view, overflow_checks, 0, <<>>) IN
    IF ~r.ok THEN r
    ELSE Text(<<"{", " ">> \o r.text \o <<" ", "}">>)

\* BdecodeNode::to_json_with_style (decode.rs 400-408); an End view renders as
\* nothing
to_json_with_style(toks, buf, view, style, overflow_checks) ==
    CASE view.kind = "Dict" -> Dict_to_json(toks, buf, view, overflow_checks)
      [] view.kind = "List" -> List_to_json(toks, buf, view, style, overflow_checks)
      [] view.kind = "Str"  -> Str_to_json(toks, buf, view.token_index)
      [] view.kind = "Int"  -> Int_to_json(toks, buf, view.token_index, overflow_checks)
      [] OTHER              -> Text(<<>>)

\* BdecodeNode::to_json (decode.rs 410-412)
ToJson ==
    /\ pc = "done"
    /\ UNCHANGED node
    /\ \E overflow_checks \in BOOLEAN :
         Return("to_json", to_json_with_style(tokens, buffer, node, Compact,
                                              overflow_checks))

\* BdecodeNode::to_json_pretty (decode.rs 414-416)
ToJsonPretty ==
    /\ pc = "done"
    /\ UNCHANGED node
    /\ \E overflow_checks \in BOOLEAN :
         Return("to_json_pretty", to_json_with_style(tokens, buffer, node, Pretty(0),
                                                     overflow_checks))

(***************************************************************************)
(* The calls checked: the buffers handed to parse and its two limits       *)
(***************************************************************************)

\* longest buffer of arbitrary bytes
MaxLen == 4
\* longest well-formed value the structured buffers are built from
MaxValueLen == 8
\* largest explicit depth_limit and token_limit passed to parse
MaxDepthLimit == 3
MaxTokenLimit == 5

Alphabet == {"d", "l", "i", "e", "0", "1", ":", "-"}
LenDigits == {"0", "1"}
PayloadBytes == {"e", "0"}

\* every byte string of length n over a set of bytes
SeqsOfLen(bytes, n) == [1..n -> bytes]

\* the value of a run of decimal digit characters
RECURSIVE DigitsToNat(_)
DigitsToNat(ds) ==
    IF ds = <<>> THEN 0
    ELSE DigitsToNat(SubSeq(ds, 1, Len(ds) - 1)) * 10 + DigitVal(ds[Len(ds)])

\* the strings  <digits> ':' <payload>  of total length n
StrEncodings(n) ==
    UNION { { ds \o <<":">> \o pl : pl \in SeqsOfLen(PayloadBytes, DigitsToNat(ds)) } :
            ds \in { x \in UNION { SeqsOfLen(LenDigits, k) : k \in 1..(n - 1) } :
                     Len(x) + 1 + DigitsToNat(x) = n } }

\* the integers  'i' ['-'] <digits> 'e'  of total length n
IntEncodings(n) ==
    UNION { { <<"i">> \o sg \o ds \o <<"e">> : ds \in SeqsOfLen(LenDigits, n - 2 - Len(sg)) } :
            sg \in { x \in {<<>>, <<"-">>} : n - 2 - Len(x) >= 1 } }

RECURSIVE ValuesOfLen(_), ItemsOfLen(_), PairsOfLen(_)

\* the well-formed bencoded values of exactly n bytes
ValuesOfLen(n) ==
    IF n < 2 THEN {}
    ELSE StrEncodings(n) \cup IntEncodings(n)
         \cup { <<"l">> \o body \o <<"e">> : body \in ItemsOfLen(n - 2) }
         \cup { <<"d">> \o body \o <<"e">> : body \in PairsOfLen(n - 2) }

\* the runs of values of n bytes in all (list bodies)
ItemsOfLen(n) ==
    IF n = 0 THEN {<<>>}
    ELSE UNION { { v \o rest : v \in ValuesOfLen(k), rest \in ItemsOfLen(n - k) } :
                 k \in 2..n }

\* the runs of key/value pairs of n bytes in all (dict bodies)
PairsOfLen(n) ==
    IF n = 0 THEN {<<>>}
    ELSE UNION { UNION { { key \o v \o rest : key \in StrEncodings(k),
                                              v \in ValuesOfLen(j),
                                              rest \in PairsOfLen(n - k - j) } :
                         j \in 2..(n - k) } :
                 k \in 2..(n - 2) }

Values == UNION { ValuesOfLen(n) : n \in 2..MaxValueLen }

\* the bytes that follow a complete value: the tokenizer stops before them
StrayBytes == {"e", "0"}

\* a value cut before any of its bytes, then one more byte: every prefix of a value,
\* every value, a value with a wrong byte at the cut; and a value followed by a
\* stray byte
Damaged ==
    UNION { { SubSeq(w, 1, k) \o <<b>> : k \in 0..(Len(w) - 1), b \in Alphabet }
            \cup { w \o <<b>> : b \in StrayBytes } : w \in Values }

SmallBuffers == UNION { SeqsOfLen(Alphabet, n) : n \in 0..MaxLen }


\* the edge buffers: integers around 10^18 and i64::MAX, digit runs around the
\* cap of check_integer, strings with a length of 8 digits and more and with a length
\* around i64::MAX, buffers at the length cap,
\* digit runs over the cap that are cut short or broken by a non-digit
Pow10(n) == <<1>> \o [k \in 1..n |-> 0]
IntBuffer(negative, num) ==
    <<"i">> \o (IF negative THEN <<"-">> ELSE <<>>) \o NumText(num) \o <<"e">>

EdgeBuffers ==
    { [bytes |-> IntBuffer(sg, num), pad |-> 0] :
        sg \in BOOLEAN,
        num \in { Pow10(17), Pow10(18), I64_MAX, NumAddDigit(I64_MAX, 1),
                  Pow10(19), Pow10(20), [k \in 1..20 |-> 0], [k \in 1..21 |-> 0] } }
    \cup { [bytes |-> <<"1", "0", "0", "0", "0", "0", "0", "0", ":">>, pad |-> 10000000],
           [bytes |-> <<"0", "0", "0", "0", "0", "0", "0", "0", ":">>, pad |-> 0],
           [bytes |-> <<"0", "0", "0", "0", "0", "0", "1", ":", "e">>, pad |-> 0],
           [bytes |-> [k \in 1..12 |-> "0"] \o <<"1", ":", "e">>, pad |-> 0],
           [bytes |-> NumText(I64_MAX) \o <<":">>, pad |-> 0],
           [bytes |-> NumText(NumAddDigit(I64_MAX, 1)) \o <<":">>, pad |-> 0],
           [bytes |-> NumText(Pow10(19)) \o <<":">>, pad |-> 0],
           [bytes |-> <<"0", ":">>, pad |-> BUFFER_MAX_OFFSET - 2],
           [bytes |-> <<"0", ":">>, pad |-> BUFFER_MAX_OFFSET - 1] }
    \cup { [bytes |-> <<"i">> \o sg \o [k \in 1..21 |-> "0"] \o tail, pad |-> 0] :
             sg \in {<<>>, <<"-">>}, tail \in {<<>>, <<"-", "e">>, <<":">>} }

\* the buffers of the tests in decode.rs and of the end-to-end scenarios
TestBuffers ==
    {
      <<"2", ":", "k", "1">>,
      <<"i", "1", "9", "e">>,
      <<"l", "i", "1", "9", "e", "2", ":", "a", "b", "e">>,
      <<"d", "1", ":", "a", "1", ":", "b", "2", ":", "c", "d", "3", ":", "f", "o", "o", "4", ":", "b", "a", "r", "o", "i", "9", "e", "e">>,
      <<"d", "2", ":", "k", "1", "2", ":", "v", "1", "2", ":", "k", "2", "d", "2", ":", "k", "3", "2", ":", "v", "3", "2", ":", "k", "4", "i", "9", "e", "e", "2", ":", "k", "5", "l", "i", "7", "e", "i", "8", "e", "e", "2", ":", "k", "6", "2", ":", "v", "6", "e">>,
      <<"d", "1", "0", ":", "k", "1", "1", "1", "1", "1", "1", "1", "1", "1", "2", ":", "v", "1", "2", ":", "k", "2", "d", "2", ":", "k", "3", "i", "9", "e", "e", "e">>,
      <<"d", "2", ":", "k", "1", "l", "i", "9", "e", "e", "2", ":", "k", "2", "i", "2", "e", "e">>,
      <<"d", "2", ":", "k", "1", "d", "2", ":", "k", "2", "i", "9", "e", "e", "2", ":", "k", "3", "i", "3", "e", "e">>,
      <<"d", "2", ":", "k", "1", "d", "2", ":", "k", "2", "d", "2", ":", "k", "3", "l", "i", "9", "e", "e", "e", "e", "2", ":", "k", "4", "1", ":", "4", "e">>,
      <<"l", "i", "1", "9", "e", "2", ":", "a", "b", "d", "2", ":", "k", "1", "2", ":", "v", "1", "2", ":", "k", "2", "l", "i", "1", "e", "i", "2", "e", "e", "e", "e">>,
      <<"d", "2", ":", "k", "1", "2", ":", "v", "1", "2", ":", "k", "2", "l", "i", "1", "e", "i", "2", "e", "e", "3", ":", "k", "0", "3", "i", "3", "e", "2", ":", "k", "4", "d", "2", ":", "k", "5", "i", "5", "e", "2", ":", "k", "6", "i", "6", "e", "e", "e">>,
      <<"l", "i", "1", "9", "e", "2", ":", "a", "b", "2", ":", "c", "d", "2", ":", "e", "f", "e">>,
      <<"1", "1", ":", "k", "1", "0", "0", "0", "0", "0", "0", "0", "1", "2">>,
      <<"d", "1", ":", "a", "i", "1", "e", "e", "e">>,
      <<"i", "-", "-", "1", "e">>,
      <<"d", "1", ":", "a", "e">>,
      <<"1", "0", ":", "a", "b", "c", "d", "e", "f", "g", "h", "i", "j">>
    }

\* dicts to look keys up in: keys unsorted and repeated, values of every kind,
\* integers that overflow i64 and a negative one
FindBuffers ==
    {
      <<"d", "1", ":", "b", "i", "1", "e", "1", ":", "a", "i", "2", "e", "1", ":", "b", "l", "e", "e">>,
      <<"d", "1", ":", "a", "1", ":", "x", "1", ":", "b", "i", "7", "e", "1", ":", "e", "l", "0", ":", "e", "0", ":", "d", "1", ":", "a", "0", ":", "1", ":", "a", "l", "e", "e", "e">>,
      <<"d", "1", ":", "a">> \o IntBuffer(FALSE, NumAddDigit(I64_MAX, 1))
         \o <<"1", ":", "b">> \o IntBuffer(FALSE, Pow10(20))
         \o <<"1", ":", "e">> \o IntBuffer(TRUE, <<5>>) \o <<"e">>
    }

\* the keys a caller looks up
FindKeys == { <<>>, <<"e">>, <<"0">>, <<"a">>, <<"b">> }

\* parse_buffer(buffer) = parse(buffer, None, None)  (decode.rs 396-398)
DefaultCalls ==
    { [buffer |-> b, depth_limit |-> None, token_limit |-> None] :
        b \in { [bytes |-> x, pad |-> 0] : x \in SmallBuffers \cup Damaged \cup TestBuffers \cup FindBuffers }
              \cup EdgeBuffers }

\* the values parsed under explicit limits: the shorter ones, of up to
\* MaxValueLen - 2 bytes
LimitValues == UNION { ValuesOfLen(n) : n \in 2..(MaxValueLen - 2) }

\* parse(buffer, Some(depth_limit), Some(token_limit)) on well-formed values
LimitCalls ==
    { [buffer |-> [bytes |-> x, pad |-> 0], depth_limit |-> d, token_limit |-> t] :
        x \in LimitValues, d \in 0..MaxDepthLimit, t \in 0..MaxTokenLimit }

\* Option::unwrap_or
unwrap_or(opt, default) == IF opt = None THEN default ELSE opt

Init ==
    /\ \E c \in DefaultCalls \cup LimitCalls :
         /\ call = [depth_limit |-> c.depth_limit, token_limit |-> c.token_limit]
         /\ buffer = c.buffer
         /\ depth_limit = unwrap_or(c.depth_limit, DEFAULT_DEPTH_LIMIT)
         /\ token_limit = unwrap_or(c.token_limit, DEFAULT_TOKEN_LIMIT)
         /\ stack = NewStack(unwrap_or(c.depth_limit, DEFAULT_DEPTH_LIMIT))
    /\ tokens = <<>>
    /\ start = 0
    /\ current_frame_ptr = NoFrame
    /\ pc = "entry"
    /\ result = NoResult
    /\ node = NoNode
    /\ ret = NoRet

\* largest index a caller passes to list_item and dict_item
MaxIndex == 3

Next ==
    \/ ParseEntry
    \/ LoopReject
    \/ OpenDict
    \/ OpenList
    \/ IntToken
    \/ CloseContainer
    \/ StrToken
    \/ Finish
    \/ AsInt
    \/ AsStr
    \/ \E index \in 0..MaxIndex : ListItem(index)
    \/ \E index \in 0..MaxIndex, pick \in {"key", "val"} : DictItem(index, pick)
    \/ \E key \in FindKeys : DictFind(key)
    \/ \E key \in FindKeys : DictFindAsStr(key)
    \/ \E key \in FindKeys : DictFindAsInt(key)
    \/ \E key \in FindKeys : DictFindAsList(key)
    \/ \E key \in FindKeys : DictFindAsDict(key)
    \/ NodeLen
    \/ \E index \in 0..MaxIndex : ListItemAsInt(index)
    \/ \E index \in 0..MaxIndex : ListItemAsStr(index)
    \/ ToJson
    \/ ToJsonPretty

Spec == Init /\ [][Next]_vars

(***************************************************************************)
(* The bencoding grammar of the wire format, read by recursive descent     *)
(* straight from the buffer (no token array, no stack): what the properties*)
(* mean by "the value", "well-formed", "containers open at once" and "the  *)
(* tokens a value needs".  With strict = FALSE an integer may have an      *)
(* empty digit run, as check_integer lets it.                              *)
(***************************************************************************)

RefBad == [end |-> -1, depth |-> 0, count |-> 0, hdr |-> 0, digits |-> 0]

Max(a, b) == IF a >= b THEN a ELSE b

\* the first position from p on that holds no decimal digit
RECURSIVE RefDigitsEnd(_, _)
RefDigitsEnd(buf, p) ==
    IF p < BufLen(buf) /\ is_ascii_digit(BufAt(buf, p)) THEN RefDigitsEnd(buf, p + 1) ELSE p

RECURSIVE RefValue(_, _, _), RefItems(_, _, _, _)

\* the value that starts at p: the position after it, the most containers it has
\* open at once, the tokens it stands for (one per string or integer, two per
\* container), its longest string length prefix and its longest integer digit run
RefValue(buf, p, strict) ==
    IF p >= BufLen(buf) THEN RefBad
    ELSE LET c == BufAt(buf, p) IN
         CASE c = "i" ->
                LET q == IF p + 1 < BufLen(buf) /\ BufAt(buf, p + 1) = "-"
                         THEN p + 2 ELSE p + 1
                    r == RefDigitsEnd(buf, q)
                IN  IF r < BufLen(buf) /\ BufAt(buf, r) = "e" /\ (strict => r > q)
                    THEN [end |-> r + 1, depth |-> 0, count |-> 1, hdr |-> 0,
                          digits |-> r - q]
                    ELSE RefBad
           [] is_ascii_digit(c) ->
                LET r == RefDigitsEnd(buf, p) IN
                IF r < BufLen(buf) /\ BufAt(buf, r) = ":" /\ r - p <= 9
                   /\ r + 1 + DigitsToNat(BufSlice(buf, p, r)) <= BufLen(buf)
                THEN [end |-> r + 1 + DigitsToNat(BufSlice(buf, p, r)), depth |-> 0,
                      count |-> 1, hdr |-> r - p, digits |-> 0]
                ELSE RefBad
           [] c = "l" -> RefItems(buf, p + 1, FALSE, strict)
           [] c = "d" -> RefItems(buf, p + 1, TRUE, strict)
           [] OTHER -> RefBad

\* the rest of a container body from q up to and with its closing 'e'
RefItems(buf, q, isdict, strict) ==
    IF q >= BufLen(buf) THEN RefBad
    ELSE IF BufAt(buf, q) = "e"
    THEN [end |-> q + 1, depth |-> 1, count |-> 2, hdr |-> 0, digits |-> 0]
    ELSE LET key == IF ~isdict
                    THEN [end |-> q, depth |-> 0, count |-> 0, hdr |-> 0, digits |-> 0]
                    ELSE IF is_ascii_digit(BufAt(buf, q)) THEN RefValue(buf, q, strict)
                    ELSE RefBad
         IN  IF key.end = -1 THEN RefBad
             ELSE LET v == RefValue(buf, key.end, strict) IN
                  IF v.end = -1 THEN RefBad
                  ELSE LET rest == RefItems(buf, v.end, isdict, strict) IN
                       IF rest.end = -1 THEN RefBad
                       ELSE [end    |-> rest.end,
                             depth  |-> Max(rest.depth, 1 + v.depth),
                             count  |-> key.count + v.count + rest.count,
                             hdr    |-> Max(key.hdr, Max(v.hdr, rest.hdr)),
                             digits |-> Max(v.digits, rest.digits)]

\* the top-level value of the buffer
TopValue(strict) == RefValue(buffer, 0, strict)

\* parse has returned Ok
Parsed == result.ok

(***************************************************************************)
(* C1                                                                      *)
(***************************************************************************)

\* bytes is  "i" + decimal(n) + "e"  for an integer n with |n| <= 10^18: an optional
\* '-', then digits with no leading zero, and no "-0"
IsDecimalInt(bytes) ==
    /\ Len(bytes) >= 3
    /\ bytes[1] = "i"
    /\ bytes[Len(bytes)] = "e"
    /\ LET neg == bytes[2] = "-"
           ds  == SubSeq(bytes, IF neg THEN 3 ELSE 2, Len(bytes) - 1)
       IN  /\ Len(ds) >= 1
           /\ \A k \in 1..Len(ds) : is_ascii_digit(ds[k])
           /\ Len(ds) = 1 \/ ds[1] # "0"
           /\ ~(neg /\ ds = <<"0">>)
           /\ ~NumGreater([k \in 1..Len(ds) |-> DigitVal(ds[k])], Pow10(18))

\* the n of  "i" + decimal(n) + "e"  as as_int is to return it
DecimalValue(bytes) ==
    LET neg == bytes[2] = "-"
        ds  == SubSeq(bytes, IF neg THEN 3 ELSE 2, Len(bytes) - 1)
    IN  [op |-> "as_int", ok |-> TRUE, kind |-> "Ok", neg |-> neg,
         mag |-> [k \in 1..Len(ds) |-> DigitVal(ds[k])]]

\* C1: for every integer n in [-10^18, 10^18], parse_buffer("i" + decimal(n) + "e")
\* succeeds and as_int() on the node returns Ok(n).
C1_AsIntOfDecimal ==
    (call.depth_limit = None /\ buffer.pad = 0 /\ IsDecimalInt(buffer.bytes)) =>
        /\ pc # "error"
        /\ ret.op = "as_int" => ret = DecimalValue(buffer.bytes)

(***************************************************************************)
(* C2                                                                      *)
(***************************************************************************)

\* C2: after a successful parse the last token is an End token whose offset is the
\* cursor at loop exit, which is the position right after the top-level value as the
\* grammar reads it from the buffer; a lone string or integer included.
C2_EndAfterTopValue ==
    Parsed =>
        /\ tokens[Len(tokens)].node_type = "End"
        /\ tokens[Len(tokens)].offset = start
        /\ start = TopValue(FALSE).end

\* a lone string was parsed and bytes follow it in the buffer
C2_Witness ==
    /\ Parsed
    /\ Len(tokens) = 2
    /\ tokens[1].node_type = "Str"
    /\ tokens[2].offset < BufLen(buffer)

(***************************************************************************)
(* C3                                                                      *)
(***************************************************************************)

IsContainer(tok) == tok.node_type \in {"Dict", "List"}

\* C3: after a successful parse every Dict or List token at index c has
\* next_item >= 2, and tokens[c + next_item - 1] is the End token of that container's
\* own closing 'e' (the 'e' the grammar pairs with the container's opening byte).
C3_ContainerSpan ==
    Parsed =>
        \A c \in 0..(Len(tokens) - 1) :
            IsContainer(TokAt(tokens, c)) =>
                LET n == TokAt(tokens, c).next_item IN
                /\ n >= 2
                /\ c + n - 1 < Len(tokens)
                /\ TokAt(tokens, c + n - 1).node_type = "End"
                /\ TokAt(tokens, c + n - 1).offset
                     = RefValue(buffer, TokAt(tokens, c).offset, FALSE).end - 1

\* a non-empty container nested in a container was parsed
C3_Witness ==
    /\ Parsed
    /\ \E c \in 1..(Len(tokens) - 1) :
         /\ IsContainer(TokAt(tokens, c))
         /\ TokAt(tokens, c).next_item >= 3
         /\ TokAt(tokens, 0).next_item > TokAt(tokens, c).next_item + 2

(***************************************************************************)
(* C4                                                                      *)
(***************************************************************************)

\* the L payload bytes after the colon of the string token at index i, L being the
\* decimal value of the header_size bytes at its offset
PayloadOf(i) ==
    LET s == TokAt(tokens, i)
        L == DigitsToNat(BufSlice(buffer, s.offset, s.offset + s.header_size))
    IN  BufSlice(buffer, s.offset + s.header_size + 1, s.offset + s.header_size + 1 + L)

\* C4: after a successful parse, for every Str token s at index i with next token n:
\* n.offset - s.offset = s.header_size + 1 + L, the byte at s.offset + s.header_size
\* is ':', and as_str() returns exactly the L payload bytes after the colon.
C4_StrSpan ==
    Parsed =>
        /\ \A i \in 0..(Len(tokens) - 2) :
             TokAt(tokens, i).node_type = "Str" =>
                LET s == TokAt(tokens, i)
                    n == TokAt(tokens, i + 1)
                IN  /\ n.offset - s.offset = s.header_size + 1 + Len(PayloadOf(i))
                    /\ BufAt(buffer, s.offset + s.header_size) = ":"
                    /\ Str_value(tokens, buffer, i).ok
                    /\ Str_value(tokens, buffer, i).bytes = PayloadOf(i)
        /\ (ret.op = "as_str" /\ ret.ok) => ret.bytes = PayloadOf(node.token_index)

\* as_str() has returned the payload of a string that is not the root
C4_Witness ==
    /\ ret.op = "as_str"
    /\ ret.ok
    /\ Len(ret.bytes) >= 2
    /\ node.token_index > 0

(***************************************************************************)
(* C5                                                                      *)
(***************************************************************************)

\* the skip-walk: the token indexes met from index i on, stepping by next_item, up to
\* the first End token (not included)
RECURSIVE SkipWalk(_, _)
SkipWalk(toks, i) ==
    IF i >= Len(toks) \/ TokAt(toks, i).node_type = "End" \/ TokAt(toks, i).next_item = 0
    THEN <<>>
    ELSE <<i>> \o SkipWalk(toks, i + TokAt(toks, i).next_item)

\* C5: for every Dict view of a successful parse, the skip-walk from the first child
\* stops on the dict's own End token after exactly 2 * len() tokens, item_indexes
\* holds the len() tokens at the even walk positions (0, 2, ...), each of kind Str.
C5_DictView ==
    Parsed =>
        /\ \A c \in 0..(Len(tokens) - 1) :
             TokAt(tokens, c).node_type = "Dict" =>
                LET view == NewNode(tokens, c)
                    walk == SkipWalk(tokens, c + 1)
                IN  /\ view.ok /\ view.kind = "Dict"
                    /\ Len(walk) = 2 * view.len
                    /\ c + 1 + Len(walk) <= Len(tokens)
                    /\ IF walk = <<>> THEN TokAt(tokens, c).next_item = 2
                       ELSE walk[Len(walk)] + TokAt(tokens, walk[Len(walk)]).next_item
                              = c + TokAt(tokens, c).next_item - 1
                    /\ Len(view.item_indexes) = view.len
                    /\ \A k \in 1..view.len :
                         /\ view.item_indexes[k] = walk[2 * k - 1]
                         /\ TokAt(tokens, view.item_indexes[k]).node_type = "Str"
        /\ node.kind = "Dict" => node = NewNode(tokens, node.token_index)

\* the caller holds the view of a nested dict of two or more entries
C5_Witness ==
    /\ Parsed
    /\ node.kind = "Dict"
    /\ node.token_index > 0
    /\ node.len >= 2

(***************************************************************************)
(* C6, C7                                                                  *)
(***************************************************************************)

\* parse has returned, one way or the other
Returned == pc \notin {"entry", "loop", "term"}

\* the whole buffer is one well-formed value
WholeValue == TopValue(TRUE).end = BufLen(buffer)

\* C6: for every depth_limit d >= 1 (and a token budget that is not in the way), a
\* well-formed value whose deepest point has exactly d containers open at once parses
\* successfully, and one with d + 1 containers open at once fails with DepthExceeded.
C6_DepthLimit ==
    ( /\ Returned
      /\ call.depth_limit # None /\ call.depth_limit >= 1
      /\ WholeValue
      /\ call.token_limit >= TopValue(TRUE).count + 1 ) =>
        /\ TopValue(TRUE).depth = call.depth_limit => Parsed
        /\ TopValue(TRUE).depth = call.depth_limit + 1 =>
             (~result.ok /\ result.kind = "DepthExceeded")

\* C7: for every token_limit L >= 0 a successful parse returns at most L tokens, the
\* synthetic terminator included, and a well-formed value that needs more than L
\* tokens (and is within the depth limit) fails with LimitExceeded.
C7_TokenLimit ==
    (Returned /\ call.token_limit # None) =>
        /\ Parsed => Len(tokens) <= call.token_limit
        /\ ( /\ WholeValue
             /\ TopValue(TRUE).depth < call.depth_limit
             /\ TopValue(TRUE).count + 1 > call.token_limit ) =>
               (~result.ok /\ result.kind = "LimitExceeded")

(***************************************************************************)
(* C8                                                                      *)
(***************************************************************************)

\* parse_buffer was called: the default depth and token limits, which no value of
\* the model comes near
DefaultLimits == call.depth_limit = None /\ call.token_limit = None

\* a buffer over the largest length is turned away before any byte is examined
RejectedAtEntry ==
    /\ pc = "error"
    /\ result = Err("LimitExceeded", BufLen(buffer))
    /\ tokens = <<>>
    /\ start = 0

OpenContainers == { c \in 0..(Len(tokens) - 1) :
                      IsContainer(TokAt(tokens, c)) /\ TokAt(tokens, c).next_item = 0 }

\* the innermost open container, -1 when there is none
OpenTop == IF OpenContainers = {} THEN -1
           ELSE CHOOSE c \in OpenContainers : \A o \in OpenContainers : o <= c

\* the children the innermost open container has received so far
Children == Len(SkipWalk(tokens, OpenTop + 1))

\* the iteration at hand examines a byte: it passes the limit checks at its head
\* and the cursor is inside the buffer
ExaminesByte ==
    /\ pc = "loop"
    /\ Cardinality(OpenContainers) < depth_limit
    /\ token_limit >= 1
    /\ start < BufLen(buffer)

InDict == OpenTop # -1 /\ TokAt(tokens, OpenTop).node_type = "Dict"

\* the innermost open container is a dict that expects a key / a value
KeyPosition == InDict /\ Children % 2 = 0
ValuePosition == InDict /\ Children % 2 = 1

\* C9: at any nesting depth, a closing 'e' examined while the innermost open container
\* is a dict that has received a key but not its value makes parse fail with
\* ExpectedValue carrying the position of that 'e'; closing a dict after an even
\* number of children never raises ExpectedValue.
C9_ExpectedValue ==
    [][ /\ (ExaminesByte /\ CurByte = "e" /\ ValuePosition) =>
              (pc' = "error" /\ result' = Err("ExpectedValue", start))
        /\ (ExaminesByte /\ CurByte = "e" /\ KeyPosition) =>
              (pc' # "error" /\ result'.kind # "ExpectedValue")
      ]_vars

\* parse failed with ExpectedValue inside a dict nested in another container
C9_Witness ==
    /\ pc = "error"
    /\ result.kind = "ExpectedValue"
    /\ Cardinality(OpenContainers) >= 2
    /\ ValuePosition

\* C10: whenever the innermost open container is a dict expecting a key, an examined
\* byte that is neither an ASCII digit nor 'e' makes parse fail with ExpectedDigit at
\* that byte's position; in value position 'i', 'l', 'd' and the digits pass the check
\* (a container is opened, and an integer or a string is never refused at that byte).
C10_ExpectedDigit ==
    [][ /\ (ExaminesByte /\ KeyPosition /\ ~is_ascii_digit(CurByte) /\ CurByte # "e") =>
              (pc' = "error" /\ result' = Err("ExpectedDigit", start))
        /\ (ExaminesByte /\ ValuePosition /\ CurByte \in {"l", "d"}) =>
              (pc' = "loop" /\ Len(tokens') = Len(tokens) + 1)
        /\ (ExaminesByte /\ ValuePosition /\ (CurByte = "i" \/ is_ascii_digit(CurByte))) =>
              result' # Err("ExpectedDigit", start)
      ]_vars

\* parse failed with ExpectedDigit on an 'i', 'l' or 'd' in the key position of a
\* dict that already holds an entry
C10_Witness ==
    /\ pc = "error"
    /\ result = Err("ExpectedDigit", start)
    /\ KeyPosition
    /\ Children >= 2
    /\ CurByte \in {"i", "l", "d"}

(***************************************************************************)
(* C11, C12                                                                *)
(***************************************************************************)

\* the first position after the run of digits that starts at the cursor
RunEnd == RefDigitsEnd(buffer, start)

\* the iteration at hand examines the first digit of a string length prefix, a run
\* short enough that its value is no matter
ExaminesPrefix ==
    /\ ExaminesByte
    /\ is_ascii_digit(CurByte)
    /\ RunEnd - start <= 9

\* C11: when the decimal length prefix of a string is followed by a byte that is
\* neither a digit nor ':', parse fails with ExpectedColon at the first such byte.
C11_ExpectedColonAtByte ==
    [][ (ExaminesPrefix /\ RunEnd < BufLen(buffer) /\ BufAt(buffer, RunEnd) # ":") =>
            (pc' = "error" /\ result' = Err("ExpectedColon", RunEnd))
      ]_vars

\* C12: when the buffer ends after one or more digits of a string length prefix and
\* before any ':', parse fails with ExpectedColon, for a prefix of one digit as well
\* as of several.
C12_ExpectedColonAtEnd ==
    [][ (ExaminesPrefix /\ RunEnd = BufLen(buffer)) =>
            (pc' = "error" /\ result'.kind = "ExpectedColon")
      ]_vars

(***************************************************************************)
(* C13                                                                     *)
(***************************************************************************)

\* the iteration at hand examines the 'i' of an integer where a value may stand
ExaminesInt == ExaminesByte /\ CurByte = "i" /\ ~KeyPosition

\* the first position of the digit run of that integer, its sign skipped
IntRunStart == IF BufAt(buffer, start + 1) = "-" /\ start + 1 < BufLen(buffer)
               THEN start + 2 ELSE start + 1

\* the first position after the digit run
IntRunEnd == RefDigitsEnd(buffer, IntRunStart)

\* C13: the tokenizer accepts 'i' [-] digits 'e' exactly when the digit run, sign
\* excluded, has at most 20 digits: 21 or more digits before the 'e' fail with
\* Overflow, 20 or fewer give one Int token at the position of the 'i'; a non-digit
\* byte in the run fails with ExpectedDigit at that byte and a buffer that ends before
\* the 'e' fails with UnexpectedEof, whatever the length of the run.
C13_IntegerScan ==
    [][ ExaminesInt =>
          IF IntRunEnd >= BufLen(buffer)
          THEN pc' = "error" /\ result'.kind = "UnexpectedEof"
          ELSE IF BufAt(buffer, IntRunEnd) # "e"
          THEN pc' = "error" /\ result' = Err("ExpectedDigit", IntRunEnd)
          ELSE IF IntRunEnd - IntRunStart >= 21
          THEN pc' = "error" /\ result'.kind = "Overflow"
          ELSE /\ pc' # "error"
               /\ tokens' = Append(tokens, new_int(start))
               /\ TokAt(tokens', Len(tokens)).node_type = "Int"
               /\ TokAt(tokens', Len(tokens)).offset = start
               /\ start' = IntRunEnd + 1
      ]_vars

\* a run of more than 20 digits that the buffer's end cuts short was refused with
\* UnexpectedEof
C13_Witness ==
    /\ pc = "error"
    /\ result.kind = "UnexpectedEof"
    /\ CurByte = "i"
    /\ IntRunEnd - IntRunStart >= 21
    /\ IntRunEnd = BufLen(buffer)

(***************************************************************************)
(* C14                                                                     *)
(***************************************************************************)

\* C14: after a successful parse, as_int() on an Int node returns the integer value
\* or fails with Overflow, and with no other error kind, for every integer text the
\* tokenizer accepted.
C14_AsIntOkOrOverflow ==
    (Parsed /\ ret.op = "as_int" /\ node.kind = "Int") =>
        (ret.ok \/ ret.kind = "Overflow")

(***************************************************************************)
(* C15                                                                     *)
(***************************************************************************)

\* the digit run of the integer the caller's view is on, its '-' skipped
ViewDigits ==
    LET q == TokAt(tokens, node.token_index).offset + 2
    IN  BufSlice(buffer, q, RefDigitsEnd(buffer, q))

\* the view is on a tokenized integer with a leading '-' and 1 to 18 digits
ViewNegativeInt ==
    /\ Parsed
    /\ node.kind = "Int"
    /\ BufAt(buffer, TokAt(tokens, node.token_index).offset + 1) = "-"
    /\ Len(ViewDigits) \in 1..18

\* C15: negative integers are accepted: "i-0e" parses and as_int() on it returns
\* Ok(0), and in general a tokenized integer with a leading '-' decodes to the
\* negation of its digit run.
C15_NegativeDecoded ==
    /\ (buffer = [bytes |-> <<"i", "-", "0", "e">>, pad |-> 0] /\ DefaultLimits) =>
            pc # "error"
    /\ (ViewNegativeInt /\ ret.op = "as_int") =>
            ret = [op |-> "as_int"]
                  @@ OkInt(TRUE, NumNorm([k \in 1..Len(ViewDigits) |-> DigitVal(ViewDigits[k])]))

(***************************************************************************)
(* C16                                                                     *)
(***************************************************************************)

\* the entries of a dict view whose key payload is k, counted from 0
EntriesWithKey(view, k) ==
    { i \in 0..(view.len - 1) : PayloadOf(view.item_indexes[i + 1]) = k }

\* the least element of a non-empty set of numbers
Least(S) == CHOOSE i \in S : \A j \in S : i <= j

\* C16: for every Dict view of a successful parse and every byte string k,
\* dict_find(k) returns None when no key's payload equals k, and otherwise the view of
\* the value token right after the first key whose payload equals k, which is the
\* value of dict_item(i) for the least such i; keys need be neither sorted nor unique.
C16_DictFind ==
    Parsed =>
        /\ \A c \in 0..(Len(tokens) - 1) :
             TokAt(tokens, c).node_type = "Dict" =>
                LET view == NewNode(tokens, c) IN
                \A k \in FindKeys :
                    LET found == Dict_find(tokens, buffer, view, k)
                        with  == EntriesWithKey(view, k)
                    IN  IF with = {} THEN found = OptNone
                        ELSE /\ found = OptSome(Dict_item(tokens, view, Least(with)).val)
                             /\ found.val.token_index
                                  = view.item_indexes[Least(with) + 1] + 1
        /\ (ret.op = "dict_find" /\ pc # "panic" /\ ret.kind = "Some") =>
             /\ ret.val = node
             /\ TokAt(tokens, node.token_index - 1).node_type = "Str"
             /\ PayloadOf(node.token_index - 1) = ret.key

\* dict_find returned the value of the first of two entries with the same key
C16_Witness ==
    /\ ret.op = "dict_find"
    /\ pc # "panic"
    /\ ret.kind = "Some"
    /\ \E j \in (node.token_index + 1)..(Len(tokens) - 2) :
         /\ TokAt(tokens, j).node_type = "Str"
         /\ PayloadOf(j) = ret.key
         /\ TokAt(tokens, j + 1).node_type = "List"
         /\ node.kind = "Int"

(***************************************************************************)
(* C17                                                                     *)
(***************************************************************************)

\* the kind of value each typed lookup asks for
WantedKind(op) ==
    CASE op = "dict_find_as_str"  -> "Str"
      [] op = "dict_find_as_int"  -> "Int"
      [] op = "dict_find_as_list" -> "List"
      [] op = "dict_find_as_dict" -> "Dict"

\* the integer at token index i is written without a sign and is larger than i64::MAX
OverflowsI64(i) ==
    LET q  == TokAt(tokens, i).offset + 1
        ds == BufSlice(buffer, q, RefDigitsEnd(buffer, q))
    IN  /\ ds # <<>>
        /\ NumGreater(NumNorm([k \in 1..Len(ds) |-> DigitVal(ds[k])]), I64_MAX)

\* C17: each of dict_find_as_str, dict_find_as_int, dict_find_as_list and
\* dict_find_as_dict returns None, and does not panic, when the key is missing and
\* when the key is present with a value of another kind; dict_find_as_int also returns
\* None when the integer is present but overflows i64.
C17_TypedFindNone ==
    ( /\ ret.op \in {"dict_find_as_str", "dict_find_as_int", "dict_find_as_list",
                     "dict_find_as_dict"}
      /\ node.kind = "Dict" ) =>
        LET found == Dict_find(tokens, buffer, node, ret.key) IN
        ( \/ found.kind = "None"
          \/ found.val.kind # WantedKind(ret.op)
          \/ (ret.op = "dict_find_as_int" /\ OverflowsI64(found.val.token_index)) ) =>
              (pc # "panic" /\ ret.kind = "None")

(***************************************************************************)
(* C18                                                                     *)
(***************************************************************************)

\* the panic of an index that is out of range
OutOfRange == Panic("index out of range")

\* C18: list_item(i) and dict_item(i) panic with "index out of range" exactly when
\* i >= len(); for i < len() list_item(i) returns the view on the i-th direct element
\* (token index item_indexes[i]) and dict_item(i) the i-th key together with the token
\* right after that key.
C18_ItemByIndex ==
    Parsed =>
        /\ \A c \in 0..(Len(tokens) - 1) : \A i \in 0..(MaxIndex + 1) :
             LET view == NewNode(tokens, c)
                 walk == SkipWalk(tokens, c + 1)
             IN  /\ TokAt(tokens, c).node_type = "List" =>
                      /\ view.len = Len(walk)
                      /\ List_item(tokens, view, i)
                           = IF i >= view.len THEN OutOfRange
                             ELSE NewNode(tokens, walk[i + 1])
                      /\ i < view.len => view.item_indexes[i + 1] = walk[i + 1]
                 /\ TokAt(tokens, c).node_type = "Dict" =>
                      /\ 2 * view.len = Len(walk)
                      /\ Dict_item(tokens, view, i)
                           = IF i >= view.len THEN OutOfRange
                             ELSE [ok |-> TRUE, kind |-> "Ok",
                                   key |-> NewNode(tokens, walk[2 * i + 1]),
                                   val |-> NewNode(tokens, walk[2 * i + 1] + 1)]
        /\ (ret.op = "list_item" /\ pc = "panic" /\ node.kind = "List") =>
             (ret.index >= node.len /\ ret.msg = OutOfRange.msg)
        /\ (ret.op = "dict_item" /\ pc = "panic" /\ node.kind = "Dict") =>
             (ret.index >= node.len /\ ret.msg = OutOfRange.msg)
        /\ (ret.op = "list_item" /\ pc # "panic") =>
             (ret.token_index = node.token_index /\ node = NewNode(tokens, node.token_index))
        /\ (ret.op = "dict_item" /\ pc # "panic") =>
             /\ ret.key.kind = "Str"
             /\ ret.val.token_index = ret.key.token_index + 1
             /\ node \in {ret.key, ret.val}

\* list_item was called on a non-empty list with index len() and panicked
C18_Witness ==
    /\ ret.op = "list_item"
    /\ pc = "panic"
    /\ node.kind = "List"
    /\ node.len >= 1
    /\ ret.index = node.len

(***************************************************************************)
(* C19                                                                     *)
(***************************************************************************)

\* a token as the grammar gives it
RefToken(offset, node_type, next_item, header_size) ==
    [offset |-> offset, node_type |-> node_type, next_item |-> next_item,
     header_size |-> header_size]

RECURSIVE RefTokens(_, _), RefItemTokens(_, _)

\* the tokens of the well-formed value that starts at p: one per string or integer;
\* for a container its opening token, the tokens of its children and the End of its
\* closing 'e', the opening token's skip distance leading past that End
RefTokens(buf, p) ==
    LET c == BufAt(buf, p) IN
    CASE c = "i" -> << RefToken(p, "Int", 1, 0) >>
      [] c \in {"l", "d"} ->
            LET body == RefItemTokens(buf, p + 1)
            IN  << RefToken(p, IF c = "l" THEN "List" ELSE "Dict", Len(body) + 1, 0) >>
                \o body
      [] OTHER -> << RefToken(p, "Str", 1, RefDigitsEnd(buf, p) - p) >>

\* the tokens of the rest of a container body from q on, its End included
RefItemTokens(buf, q) ==
    IF BufAt(buf, q) = "e" THEN << RefToken(q, "End", 1, 0) >>
    ELSE RefTokens(buf, q) \o RefItemTokens(buf, RefValue(buf, q, FALSE).end)

\* the bytes of the buffer before the cursor, and nothing else
Consumed ==
    [bytes |-> SubSeq(buffer.bytes, 1, IF start < Len(buffer.bytes) THEN start
                                       ELSE Len(buffer.bytes)),
     pad   |-> Max(0, start - Len(buffer.bytes))]

\* C19: the single-shot parse stops as soon as the top-level value is complete: the
\* bytes before the final cursor are one complete value, and the token array is the
\* one those bytes alone determine, so that parse(b ++ s) returns the token array of
\* parse(b) for every suffix s; no trailing byte is examined.
C19_StopsAtValueEnd ==
    Parsed =>
        /\ BufLen(Consumed) = start
        /\ RefValue(Consumed, 0, FALSE).end = start
        /\ RefValue(buffer, 0, FALSE) = RefValue(Consumed, 0, FALSE)
        /\ tokens = RefTokens(Consumed, 0) \o << RefToken(start, "End", 1, 0) >>

\* a dict was parsed from a buffer that goes on after its closing 'e'
C19_Witness ==
    /\ Parsed
    /\ start < BufLen(buffer)
    /\ tokens[1].node_type = "Dict"
    /\ Len(tokens) >= 5

(***************************************************************************)
(* C20                                                                     *)
(***************************************************************************)

\* the tokens of one kind in the array
TokensOfKind(kinds) == { i \in 1..Len(tokens) : tokens[i].node_type \in kinds }

\* C20: for every successful parse the number of tokens is 1 (the synthetic
\* terminator) + the strings + the integers + 2 * the containers of the consumed
\* value; a top-level single integer or single string yields exactly two tokens.
C20_TokenCount ==
    Parsed =>
        /\ Len(tokens) = 1 + TopValue(FALSE).count
        /\ Cardinality(TokensOfKind({"End"}))
             = 1 + Cardinality(TokensOfKind({"Dict", "List"}))
        /\ Len(tokens) = 1 + Cardinality(TokensOfKind({"Str", "Int"}))
                           + 2 * Cardinality(TokensOfKind({"Dict", "List"}))
        /\ BufAt(buffer, 0) \notin {"l", "d"} => Len(tokens) = 2

\* a lone integer gave two tokens, and so did a lone string in another run
C20_Witness ==
    /\ Parsed
    /\ Len(tokens) = 2
    /\ tokens[1].node_type = "Int"
    /\ TopValue(FALSE).count = 1

(***************************************************************************)
(* C21                                                                     *)
(***************************************************************************)

\* the navigation and rendering operations of a node view
Accessors == {"as_int", "as_str", "len", "list_item", "list_item_as_int",
              "list_item_as_str", "dict_item", "dict_find", "dict_find_as_str",
              "dict_find_as_int", "dict_find_as_list", "dict_find_as_dict",
              "to_json", "to_json_pretty"}

\* C21: after a successful parse, every navigation and rendering operation on a node
\* view (as_int, as_str, len, list_item, dict_item, dict_find, the dict_find_as_* and
\* list_item_as_* helpers, to_json) leaves the shared buffer and the shared token array
\* unchanged, whatever calls came before it and whether it returns or panics.
C21_AccessorsReadOnly ==
    [][ Parsed =>
            /\ ret'.op \in Accessors
            /\ buffer' = buffer
            /\ tokens' = tokens
      ]_vars

\* a rendering was made of a view reached by navigation: a second call, after one
\* that moved the view off the root
C21_Witness ==
    /\ Parsed
    /\ ret.op \in {"to_json", "to_json_pretty"}
    /\ ret.ok
    /\ node.token_index > 0
    /\ node.kind \in {"List", "Dict"}

(***************************************************************************)
(* C22                                                                     *)
(***************************************************************************)

\* the numeral a run of digit bytes spells
RunValue == NumNorm([k \in 1..(RunEnd - start) |-> DigitVal(BufAt(buffer, start + k - 1))])

\* the cursor is on a string the grammar accepts: digits, ':', and as many payload
\* bytes left in the buffer as the digits say
OnString ==
    /\ is_ascii_digit(CurByte)
    /\ RunEnd < BufLen(buffer)
    /\ BufAt(buffer, RunEnd) = ":"
    /\ RunEnd - start <= 18
    /\ ~NumGreater(RunValue, NatToNum(BufLen(buffer) - RunEnd - 1))

\* C22: every token emitted by the tokenizer has offset < 2^29, next_item <= 2^29 - 1
\* and header_size <= 7, and nothing was cut off when it was packed: its offset is the
\* cursor it was emitted at, a Str token's header_size is the number of digits of its
\* length prefix, and a closed container's next_item is the distance to the token
\* after its End.  A buffer longer than 2^29 - 1 bytes, a string whose length prefix
\* has more than 7 digits and a container whose skip distance would pass 2^29 - 1 make
\* parse fail with LimitExceeded instead.
C22_TokenFields ==
    [][ /\ \A i \in 1..Len(tokens') :
              /\ tokens'[i].offset < 2^29
              /\ tokens'[i].next_item <= 2^29 - 1
              /\ tokens'[i].header_size <= 7
        /\ Len(tokens') = Len(tokens) + 1 =>
              LET t == tokens'[Len(tokens')] IN
              /\ t.offset = start
              /\ t.node_type = "Str" => t.header_size = RunEnd - start
              /\ (pc = "loop" /\ t.node_type = "End") =>
                    TokAt(tokens', OpenTop).next_item = Len(tokens') - OpenTop
        /\ (pc = "entry" /\ BufLen(buffer) > BUFFER_MAX_OFFSET) =>
              (pc' = "error" /\ result'.kind = "LimitExceeded")
        /\ (ExaminesByte /\ OnString /\ RunEnd - start > 7) =>
              (pc' = "error" /\ result' = Err("LimitExceeded", MAX_HEADER_SIZE))
        /\ (ExaminesByte /\ CurByte = "e" /\ OpenTop # -1 /\ ~ValuePosition
              /\ Len(tokens) + 1 - OpenTop > MAX_NEXT_ITEM) =>
              (pc' = "error" /\ result'.kind = "LimitExceeded")
      ]_vars

\* a string with a 7-digit length prefix was parsed, the widest header a token holds
C22_Witness ==
    /\ Parsed
    /\ tokens[1].node_type = "Str"
    /\ tokens[1].header_size = 7
    /\ BufSlice(buffer, 0, 8) = <<"0", "0", "0", "0", "0", "0", "1", ":">>

(***************************************************************************)
(* C23                                                                     *)
(***************************************************************************)

\* the direct children an open container c has received so far; a nested container
\* that is still open is one of them
ChildrenOf(c) == Len(SkipWalk(tokens, c + 1)) + (IF c = OpenTop THEN 0 ELSE 1)

\* C23: at the start of every tokenizer iteration the frames on the stack are the open
\* containers, innermost on top, and the parity bit of every dict frame equals the
\* number of its direct children emitted so far modulo 2, a nested container counting
\* as one child from the step that opens it: for the innermost dict, and for a parent
\* whose child container is still open; so when the child closes the parent expects a
\* key after a value and a value after a key, as the count says.
C23_DictParity ==
    pc = "loop" =>
        /\ stack.len = Cardinality(OpenContainers)
        /\ { stack.mem[k].token : k \in 1..stack.len } = OpenContainers
        /\ stack.len > 0 => StackLast(stack).token = OpenTop
        /\ current_frame_ptr = LastFramePtr(stack)
        /\ \A k \in 1..stack.len :
              TokAt(tokens, stack.mem[k].token).node_type = "Dict" =>
                  stack.mem[k].state = ChildrenOf(stack.mem[k].token) % 2

\* an iteration starts in a dict whose last child is a nested dict that was opened
\* and closed as a value: the parent expects a key again
C23_Witness ==
    /\ pc = "loop"
    /\ InDict
    /\ Children = 2
    /\ TokAt(tokens, SkipWalk(tokens, OpenTop + 1)[2]).node_type = "Dict"
    /\ StackLast(stack).state = 0
    /\ stack.len >= 2

(***************************************************************************)
(* C24                                                                     *)
(***************************************************************************)

\* C24: parse terminates on every finite buffer: each loop iteration either returns an
\* error (nothing emitted, the cursor where it was) or emits exactly one token and
\* advances the cursor by at least one byte, and the cursor never exceeds the buffer
\* length, so that the tokens emitted by the loop never outnumber the bytes consumed
\* and the loop runs at most buffer-length iterations before it breaks or fails.
C24_Progress ==
    [][ pc = "loop" =>
            /\ \/ /\ pc' = "error"
                  /\ result'.kind # "panic"
                  /\ tokens' = tokens
                  /\ start' = start
               \/ /\ pc' \in {"loop", "term"}
                  /\ Len(tokens') = Len(tokens) + 1
                  /\ start' >= start + 1
            /\ start' <= BufLen(buffer)
            /\ Len(tokens') <= start'
            /\ pc' = "term" => stack'.len = 0
      ]_vars

(***************************************************************************)
(* C25                                                                     *)
(***************************************************************************)

\* C25: given the buffer-length cap of 2^29 - 1, the container skip-distance check
\* never fires: while the tokenizer runs the buffer is within the cap, the cursor is
\* within the buffer and the tokens emitted are at most the bytes consumed, so that
\* the array with one more End token holds at most 2^29 - 1 tokens whenever a byte is
\* still to be read, no next_item reaches past the tokens emitted or past 2^29 - 1,
\* and parse never returns LimitExceeded(MAX_NEXT_ITEM).
C25_SkipCheckNeverFires ==
    /\ result # Err("LimitExceeded", MAX_NEXT_ITEM)
    /\ pc \in {"loop", "term"} =>
          /\ BufLen(buffer) <= BUFFER_MAX_OFFSET
          /\ start <= BufLen(buffer)
          /\ Len(tokens) <= start
          /\ start < BufLen(buffer) => Len(tokens) + 1 - Max(OpenTop, 0) <= MAX_NEXT_ITEM
          /\ \A i \in 1..Len(tokens) :
                /\ tokens[i].next_item <= Len(tokens) - i + 1
                /\ tokens[i].next_item <= MAX_NEXT_ITEM

\* the loop was left with as many tokens as bytes consumed, the outermost container
\* skipping over all of them
C25_Witness ==
    /\ pc = "term"
    /\ Len(tokens) = start
    /\ Len(tokens) >= 4
    /\ tokens[1].next_item = Len(tokens)

(***************************************************************************)
(* C26                                                                     *)
(***************************************************************************)

\* the view is on a tokenized integer written without a sign
ViewUnsignedInt ==
    /\ Parsed
    /\ node.kind = "Int"
    /\ BufAt(buffer, TokAt(tokens, node.token_index).offset + 1) # "-"

\* the digit run of an unsigned integer view, and the number it spells
UnsignedDigits ==
    LET q == TokAt(tokens, node.token_index).offset + 1
    IN  BufSlice(buffer, q, RefDigitsEnd(buffer, q))

UnsignedValue ==
    IF UnsignedDigits = <<>> THEN NumZero
    ELSE NumNorm([k \in 1..Len(UnsignedDigits) |-> DigitVal(UnsignedDigits[k])])

\* what an i64 addition past i64::MAX leaves behind: a trap, or a wrapped number
OverflowedArithmetic(r) ==
    /\ ~r.ok
    /\ \/ r.kind = "panic" /\ r.msg = <<"attempt to add with overflow">>
       \/ r.kind = "Overflow" /\ r.msg = <<"wrapped">>

\* C26: parse_uint never evaluates an i64 multiplication or addition whose result
\* exceeds i64::MAX: on the length prefix of a string (starting value the first digit)
\* and on the digits of an integer (starting value 0) it returns the exact value of
\* the run or Err(Overflow), the Overflow error is built without overflowing
\* arithmetic, and the largest accepted value is exactly i64::MAX.
C26_ParseUintExact ==
    /\ ~OverflowedArithmetic(result)
    /\ (ViewUnsignedInt /\ ret.op = "as_int") =>
          IF NumGreater(UnsignedValue, I64_MAX)
          THEN ~ret.ok /\ ret.kind = "Overflow" /\ ~OverflowedArithmetic(ret)
          ELSE ret = [op |-> "as_int"] @@ OkInt(FALSE, UnsignedValue)

(***************************************************************************)
(* C27                                                                     *)
(***************************************************************************)

\* the first digit position of the integer whose 'i' is at offset p
IntDigitsStart(p) == IF BufAt(buffer, p + 1) = "-" THEN p + 2 ELSE p + 1

\* C27: every Int token of a successful parse covers at least one decimal digit
\* between the 'i' (and optional '-') and the closing 'e'; the buffers "ie" and "i-e"
\* are rejected by the tokenizer with ExpectedDigit.
C27_IntHasDigit ==
    /\ Parsed =>
          \A i \in 1..Len(tokens) :
              tokens[i].node_type = "Int" =>
                  RefDigitsEnd(buffer, IntDigitsStart(tokens[i].offset))
                      > IntDigitsStart(tokens[i].offset)
    /\ (Returned /\ buffer.pad = 0 /\ buffer.bytes \in {<<"i", "e">>, <<"i", "-", "e">>}) =>
          (pc = "error" /\ result.kind = "ExpectedDigit")

(***************************************************************************)
(* C28                                                                     *)
(***************************************************************************)

\* C28: to_json() and to_json_pretty() return a string without panicking for the root
\* node of every successful parse, whatever integers the tree contains (negative
\* integers and 19- or 20-digit integers that exceed i64 included).
C28_ToJsonReturns ==
    (Parsed /\ ret.op \in {"to_json", "to_json_pretty"} /\ node.token_index = 0) =>
        (ret.ok /\ pc # "panic")

(***************************************************************************)
(* C29                                                                     *)
(***************************************************************************)

\* dict_find_as_dict(k) has returned a map: the caller's view is a dict that holds a
\* dict value under k
ReturnedMap ==
    /\ Parsed
    /\ ret.op = "dict_find_as_dict"
    /\ ret.ok
    /\ ret.kind = "Some"

\* C29: for a dict value D stored under key k, the map returned by dict_find_as_dict(k)
\* agrees with lookups on D itself: the map has an entry for every key of D and for
\* nothing else, and its entry for a key j is the value view, by token index, that
\* D.dict_find(j) returns; also when D contains duplicate keys.
C29_MapAgreesWithFind ==
    ReturnedMap =>
        LET D == Dict_find(tokens, buffer, node, ret.key).val IN
        /\ DOMAIN ret.val =
              { Str_value(tokens, buffer, D.item_indexes[i]).bytes : i \in 1..D.len }
        /\ \A j \in DOMAIN ret.val :
              LET f == Dict_find(tokens, buffer, D, j) IN
              /\ f.ok /\ f.kind = "Some"
              /\ f.val.token_index = ret.val[j].token_index

(***************************************************************************)
(* C30                                                                     *)
(***************************************************************************)

\* C30: the open-container stack never holds more than depth_limit frames, its
\* preallocated capacity, so it never reallocates, and the frame pointer saved at the
\* end of an iteration is inside the allocation, on a slot that has been written; the
\* parity flip written through that pointer in the iteration of an 'e', after the
\* frame was popped, changes no frame that is still on the stack; and a frame pushed,
\* also into a slot that was used before, starts with parity 0 (expecting a key).
C30_StackSlots ==
    [][ /\ stack'.len <= depth_limit
        /\ stack'.cap = depth_limit
        /\ ~stack'.moved
        /\ current_frame_ptr' # NoFrame =>
              /\ current_frame_ptr' <= stack'.cap
              /\ current_frame_ptr' <= Len(stack'.mem)
        /\ stack'.len < stack.len =>
              /\ current_frame_ptr = stack.len
              /\ \A k \in 1..stack'.len : stack'.mem[k] = stack.mem[k]
        /\ stack'.len > stack.len =>
              /\ stack'.len = stack.len + 1
              /\ StackLast(stack') = NewFrame(Len(tokens))
      ]_vars

\* an iteration starts in a dict whose frame lies in the slot of an empty dict that
\* was closed just before it: the flip after that 'e' had left parity 1 in the slot
C30_Witness ==
    /\ pc = "loop"
    /\ stack.len >= 2
    /\ InDict
    /\ Children = 0
    /\ StackLast(stack).state = 0
    /\ StackLast(stack).token >= 3
    /\ TokAt(tokens, StackLast(stack).token - 1).node_type = "End"
    /\ TokAt(tokens, StackLast(stack).token - 2).node_type = "Dict"

====
